---- MODULE Spec2Model ----
(***************************************************************************)
(* State-machine model of snaptool's generate -> compile -> cache ->       *)
(* execute pipeline.                                                       *)
(*                                                                         *)
(*   Spec        the current worker (src/src/worker.tsx): POST /api/tool,  *)
(*               the R2 ToolCache, the in-memory PromptHistory, the Worker *)
(*               Loader isolates, DELETE /api/clear-history.               *)
(*   SpecHistory the two history logs on their own: PromptHistory          *)
(*               (worker.tsx) and the durable PromptLog (unnamed/part_000).*)
(*   SpecLegacy  the earlier worker (src/unnamed/part_005): generate-code  *)
(*               and execute-tool running concurrently over the per-prompt *)
(*               generated-code object and the R2ToolCache.                *)
(*   SpecClear   the earlier worker with one request at a time:            *)
(*               store-prompt, generate-code, execute-tool and the         *)
(*               cascading DELETE /clear, tools/execute.                   *)
(*   SpecGate    the current worker with one request at a time and a       *)
(*               generator that may return a structurally invalid source.  *)
(*   SpecKey     key derivation on its own, over all short prompts.        *)
(*   SpecRetry   searchNpmPackages and generateWithRetry                   *)
(*               (src/unnamed/part_002) as generate-code calls them.       *)
(*   SpecInvoke  generate-and-execute of the earlier worker, with          *)
(*               store-prompt beside it.                                   *)
(*   SpecService the compile service (src/container/compile-service.js):   *)
(*               concurrent builds over the /tmp workspaces.               *)
(*   SpecCompile the current worker with one request at a time, its        *)
(*               compile step following the compile service's response.    *)
(*   SpecLive    SpecCompile with every awaited call settling.             *)
(*   SpecLog     the two history logs with the PromptLog's own write       *)
(*               route beside store-prompt.                                *)
(*   SpecStore   store-prompt of the earlier worker with its response.     *)
(*   SpecBlank   /api/tool, generate-code and generate-and-execute, one    *)
(*               request at a time.                                        *)
(*                                                                         *)
(* A prompt is a sequence of one-character strings, so that trim() and     *)
(* toLowerCase() are computed and not assumed.                             *)
(***************************************************************************)
EXTENDS Integers, Sequences, FiniteSets, TLC

\* ------------------------------------------------------------------ bounds

\* Capacity of the in-memory PromptHistory. The source keeps 50 entries
\* (worker.tsx:314); the model keeps HistoryLimit, scaled down so that a
\* full history and an eviction are reached.
HistoryLimit == 2

\* Capacity of the durable PromptLog. The source keeps 20 entries
\* (part_000:17 and :22); the model keeps LogLimit.
LogLimit == 2

\* Last value of the millisecond clock read by Date.now().
MaxClock == 3

\* ------------------------------------------------------------------ strings

null == [null |-> TRUE]

IsSpace(c) == c = " "

RECURSIVE trimStart(_)
trimStart(s) ==
  IF s # <<>> /\ IsSpace(Head(s)) THEN trimStart(Tail(s)) ELSE s

RECURSIVE trimEnd(_)
trimEnd(s) ==
  IF s # <<>> /\ IsSpace(s[Len(s)]) THEN trimEnd(SubSeq(s, 1, Len(s) - 1)) ELSE s

\* A trim that leaves the white space at the end.
trimLeadingOnly(s) == trimStart(s)

\* String.prototype.trim
trim(s) == trimEnd(trimStart(s))

LowerChar(c) ==
  CASE c = "A" -> "a"
    [] c = "B" -> "b"
    [] c = "C" -> "c"
    [] OTHER -> c

\* String.prototype.toLowerCase
toLowerCase(s) == [i \in 1..Len(s) |-> LowerChar(s[i])]

\* `!prompt?.trim()`: the prompt is empty or whitespace-only.
IsEmpty(prompt) == prompt = <<>>
IsBlank(prompt) == trim(prompt) = <<>>

\* SHA-256 rendered as hex: modelled as an injective tag of the bytes hashed.
Sha256Hex(bytes) == [sha256 |-> bytes]

\* worker.tsx hashPrompt: trim, lower-case, digest.
hashPrompt(prompt) == Sha256Hex(toLowerCase(trim(prompt)))

\* utils hashPrompt used by the earlier worker: trim, digest.
hashPromptTrim(content) == Sha256Hex(trim(content))

\* ------------------------------------------------------------------ inputs

\* Prompts submitted to /api/tool: two spellings of one key and a blank
\* prompt.
ToolPrompts == { <<"a">>, <<" ", "A">>, <<" ">> }

\* Values of the request's `input`.
Inputs == { "x" }

\* The /api/tool requests that may be in flight at once.
Requests == { "r1", "r2" }

\* Generated sources. `imports` are the specifiers of the import
\* declarations, `ctype` the Content-Type header the handler sets ("" when
\* it sets none); exportDefault, fetchCall, opens, closes and esmTypo are
\* what the structural checks of generate-code look at: the text holds
\* "export default", holds "fetch(", its counts of "{" and "}", and holds
\* "https:/esm.sh".
SrcEcho ==
  [imports |-> <<>>, body |-> "echo", ctype |-> "",
   exportDefault |-> TRUE, fetchCall |-> TRUE, opens |-> 2, closes |-> 2,
   esmTypo |-> FALSE]
SrcUuid ==
  [imports |-> << <<"u", "u", "i", "d">> >>, body |-> "uuid",
   ctype |-> "application/json",
   exportDefault |-> TRUE, fetchCall |-> TRUE, opens |-> 3, closes |-> 3,
   esmTypo |-> FALSE]
SrcUnbalanced ==
  [imports |-> <<>>, body |-> "cut", ctype |-> "",
   exportDefault |-> TRUE, fetchCall |-> TRUE, opens |-> 2, closes |-> 1,
   esmTypo |-> FALSE]

\* What generateObject may return (result.object).
GenObjects ==
  { [typescript |-> SrcEcho, example |-> "hello", outputType |-> "text",
     outputDescription |-> "the input"],
    [typescript |-> SrcUuid, example |-> "", outputType |-> "json",
     outputDescription |-> "JSON with UUID"] }

\* The schema of generateObject constrains the four fields to strings, not
\* the text of `typescript`: an object whose source has unbalanced braces.
GateObjects ==
  { [typescript |-> SrcEcho, example |-> "hello", outputType |-> "text",
     outputDescription |-> "the input"],
    [typescript |-> SrcUnbalanced, example |-> "", outputType |-> "text",
     outputDescription |-> "the input"] }

\* ------------------------------------------------------------------ helpers

Min(a, b) == IF a < b THEN a ELSE b

\* Array.prototype.slice(0, n)
slice0(seq, n) == SubSeq(seq, 1, Min(n, Len(seq)))

\* Array.prototype.filter(p => p !== prompt)
filterNot(seq, prompt) == SelectSeq(seq, LAMBDA p : p # prompt)

\* The prompt is an entry of the list.
Occurs(history, prompt) == \E i \in 1..Len(history) : history[i] = prompt

\* String.prototype.startsWith
startsWith(s, prefix) ==
  Len(s) >= Len(prefix) /\ SubSeq(s, 1, Len(prefix)) = prefix

\* ------------------------------------------------------------------ PromptHistory

\* PromptHistory.add without the slice(0, 50).
PromptHistoryAddUnbounded(history, prompt) ==
  IF ~IsBlank(prompt) THEN <<prompt>> \o filterNot(history, prompt) ELSE history

\* PromptHistory.add without the filter: the prompt is put in front of the
\* list as it is.
PromptHistoryAddNoDedup(history, prompt) ==
  IF ~IsBlank(prompt) THEN slice0(<<prompt>> \o history, HistoryLimit) ELSE history

\* PromptHistory.add: drop the duplicate, put the prompt in front, keep the
\* first HistoryLimit entries.
PromptHistoryAdd(history, prompt) ==
  IF ~IsBlank(prompt)
    THEN slice0(<<prompt>> \o filterNot(history, prompt), HistoryLimit)
    ELSE history

\* PromptHistory.list
PromptHistoryList(history) == history

\* ------------------------------------------------------------------ sidecar

\* The specifier names an npm package for compileCode: it starts with
\* neither "http", "./" nor "../".
IsPackageSpecifier(packageName) ==
  /\ ~startsWith(packageName, <<"h", "t", "t", "p">>)
  /\ ~startsWith(packageName, <<".", "/">>)
  /\ ~startsWith(packageName, <<".", ".", "/">>)

\* Output of `bun build worker.js`.
Bundle(code) == [bundle |-> code]

\* compileCode of the compile service, when install and build succeed.
compileCode(code) ==
  LET packages == SelectSeq(code.imports, IsPackageSpecifier)
  IN  IF Len(packages) = 0
        THEN [mainCode |-> code, additionalModules |-> <<>>, packages |-> <<>>]
        ELSE [mainCode |-> Bundle(code), additionalModules |-> <<>>,
              packages |-> packages]

\* ------------------------------------------------------------------ state

VARIABLES
  promptHistory,  \* PromptHistory.history of the worker
  toolCache,      \* R2 bucket TOOL_CACHE: object key (the hash) -> CachedTool
  loader,         \* Worker Loader: isolate id (the hash) -> loaded main module
  env,            \* Cloudflare.Env: which bindings are configured
  req,            \* the /api/tool requests in flight
  completed,      \* key -> outputType and packages of the first unforced request
                  \* that stored its artifact and answered 200
  promptLog,      \* storage of the PromptLog object "history": key -> prompt
  now,            \* Date.now()
  generated,      \* storage of the objects "generated:<hash>": hash -> body
  r2,             \* R2 bucket of the earlier worker: hash -> CachedTool
  gen,            \* the generate-code request of the earlier worker
  exe,            \* the execute-tool request of the earlier worker
  clr,            \* the DELETE /clear request of the earlier worker
  known,          \* prompts stored or invoked so far in the earlier worker
  tex,            \* the tools/execute request of the earlier worker
  derive,         \* two prompts and the keys derived from them
  search,         \* the searchNpmPackages call of a generate-code request
  call,           \* the generateWithRetry call of a generate-code request
  gae,            \* the generate-and-execute request of the earlier worker
  workspaces,     \* file system of the compile service: directory -> files
  builds,         \* the compileCode calls in progress in the compile service
  sto             \* the store-prompt request of the earlier worker

vars ==
  << promptHistory, toolCache, loader, env, req, completed, promptLog, now,
     generated, r2, gen, exe, clr, known, tex, derive, search, call,
     gae, workspaces, builds, sto >>

toolVars == << promptHistory, toolCache, loader, env, req, completed >>
workerVars == << promptHistory, toolCache, env, req, completed >>
logVars == << promptLog, now >>
legacyVars == << generated, r2, gen, exe, clr, known >>
serviceVars == << workspaces, builds >>
restVars == << gae, serviceVars, sto >>
auxVars == << tex, derive, search, call, restVars >>

\* A bucket or storage read: the value under the key, or null.
Lookup(store, key) == IF key \in DOMAIN store THEN store[key] ELSE null

\* A bucket or storage write: the value replaces what the key held.
Put(store, key, value) ==
  [k \in DOMAIN store \cup {key} |-> IF k = key THEN value ELSE store[k]]

\* A bucket or storage delete.
Delete(store, key) == [k \in DOMAIN store \ {key} |-> store[k]]

NoStore == [k \in {} |-> null]

\* ------------------------------------------------------------------ worker: helpers

\* `let hash = "(null)"`
NullHash == Sha256Hex(<<"(null)">>)

\* A request slot before its request arrives. Beside the handler's locals
\* (input, forceRegenerate, hash, tool, result; the prompt is read only in
\* the first step) the slot records what the request did: readFailed,
\* deleted (the delete of line 351 ran), putFailed, genCalls, compileCalls,
\* compileFailed (compileTool threw), response (what the compile service
\* answered, where the model follows it), hit (the cache step left a tool),
\* steps (the pipeline steps the request has made, in order), reused (an
\* isolate was loaded under the request's id when it executed), readded (the
\* prompt was in the history when the request added it; observed until the
\* cache step), after (the
\* request began after an
\* unforced request for its key had stored its artifact and answered 200)
\* and resp (the response).
IdleRequest ==
  [pc |-> "idle", input |-> "", forceRegenerate |-> FALSE,
   hash |-> NullHash, tool |-> null, result |-> null, resp |-> null,
   readFailed |-> FALSE, deleted |-> FALSE, putFailed |-> FALSE,
   genCalls |-> 0, compileCalls |-> 0, compileFailed |-> FALSE,
   after |-> FALSE, response |-> null, hit |-> FALSE, steps |-> <<>>,
   reused |-> FALSE, readded |-> FALSE]

\* ToolCache.get: the parsed object, or null when the object is absent or
\* the read or the parse throws.
ToolCacheGet(bucket, hash, readOk) ==
  IF readOk THEN Lookup(bucket, hash) ELSE null

\* ToolCache.set without the put.
ToolCacheSetDropped(bucket, hash, tool) == bucket

\* ToolCache.set as a field-wise update: the stored object keeps its
\* packages and output type and takes the new code.
ToolCacheSetMerged(bucket, hash, tool) ==
  IF hash \in DOMAIN bucket
    THEN Put(bucket, hash, [tool EXCEPT !.packages = bucket[hash].packages,
                                         !.outputType = bucket[hash].outputType])
    ELSE Put(bucket, hash, tool)

\* ToolCache.set: put { hash, ...tool } under tools/<hash>.json.
ToolCacheSet(bucket, hash, tool) == Put(bucket, hash, tool)

\* `tool = forceRegenerate ? null : await cache.get(hash)`
CachedToolFor(forceRegenerate, bucket, hash, readOk) ==
  IF forceRegenerate THEN null ELSE ToolCacheGet(bucket, hash, readOk)

\* `if (!tool)` taken also on a hit.
NeedsGenerationAlways(tool) == TRUE

\* `if (!tool)`: the miss branch (generate, compile, cache).
NeedsGeneration(tool) == tool = null

\* `cached: !!tool` in the response.
CachedFlag(tool) == tool # null

\* The tool built at step 5 from the compile result and the generated object.
BuiltTool(hash, compiled, object) ==
  [hash |-> hash, bundledCode |-> compiled.bundledCode,
   packages |-> compiled.packages, outputType |-> object.outputType,
   outputDescription |-> object.outputDescription]

\* compileTool on a well-formed 200 response of the compile service.
compileTool(code) ==
  LET result == compileCode(code)
  IN  [bundledCode |-> result.mainCode, packages |-> result.packages]

\* What the tool's fetch handler answers: the body it computes from ?q=input,
\* and its Content-Type header or the default.
MainSource(module) == IF "bundle" \in DOMAIN module THEN module.bundle ELSE module
RunTool(module, input) ==
  [output |-> [by |-> module, q |-> input],
   contentType |-> IF MainSource(module).ctype = "" THEN "text/plain"
                   ELSE MainSource(module).ctype]

\* env.LOADER.get that runs the callback on every call.
LoaderGetAlwaysLoads(isolates, id, bundledCode) == Put(isolates, id, bundledCode)

\* env.LOADER.get(isolateId, callback): the callback's modules are loaded
\* only when no isolate is loaded under the id.
LoaderGet(isolates, id, bundledCode) ==
  IF id \in DOMAIN isolates THEN isolates ELSE Put(isolates, id, bundledCode)

\* The 500 response of the handler's catch block.
ToolFailed(q, message) ==
  [status |-> 500, error |-> <<"Tool failed", message>>,
   details |-> [hash |-> q.hash,
                packages |-> IF q.tool = null THEN <<>> ELSE q.tool.packages]]

\* A catch block that runs the pipeline again from the cache step instead of
\* answering 500.
FinishRetrying(q, resp) ==
  IF resp.status = 500
    THEN [IdleRequest EXCEPT !.pc = "cache", !.input = q.input,
            !.forceRegenerate = q.forceRegenerate, !.hash = q.hash,
            !.after = q.after]
    ELSE [q EXCEPT !.pc = "done", !.resp = resp]

\* `return Response.json(...)`: the handler is over, with this response.
Finish(q, resp) == [q EXCEPT !.pc = "done", !.resp = resp]

\* ------------------------------------------------------------------ worker: POST /api/tool

\* Lines 334-343: parse the body, reject a blank prompt, hash the prompt and
\* add it to the history.
Start(r) ==
  /\ req[r].pc = "idle"
  /\ \E prompt \in ToolPrompts, input \in Inputs, forceRegenerate \in BOOLEAN :
       LET q == [IdleRequest EXCEPT !.input = input,
                                    !.forceRegenerate = forceRegenerate]
       IN  IF IsBlank(prompt)
             THEN /\ req' = [req EXCEPT ![r] =
                       Finish(q, [status |-> 400, error |-> <<"Missing prompt">>])]
                  /\ UNCHANGED promptHistory
             ELSE /\ req' = [req EXCEPT ![r] =
                       [q EXCEPT !.pc = "cache", !.hash = hashPrompt(prompt),
                                 !.readded = Occurs(promptHistory, prompt),
                                 !.after = hashPrompt(prompt) \in DOMAIN completed]]
                  /\ promptHistory' = PromptHistoryAdd(promptHistory, prompt)
  /\ UNCHANGED << toolCache, loader, env, completed >>

\* Lines 345-361: the cache step. The read may succeed or throw; the delete
\* of lines 349-353 runs when forceRegenerate holds and tool is set.
CheckCache(r) ==
  /\ req[r].pc = "cache"
  /\ \E readOk \in BOOLEAN :
       LET q == req[r]
           read == CachedToolFor(q.forceRegenerate, toolCache, q.hash, readOk)
           clearing == q.forceRegenerate /\ read # null
           tool == IF clearing THEN null ELSE read
           q1 == [q EXCEPT !.tool = tool, !.deleted = clearing,
                           !.hit = tool # null, !.readded = FALSE,
                           !.readFailed = ~q.forceRegenerate /\ ~readOk]
       IN  /\ (q.forceRegenerate => readOk)
           /\ toolCache' = IF clearing THEN Delete(toolCache, q.hash) ELSE toolCache
           /\ req' = [req EXCEPT ![r] =
                IF NeedsGeneration(tool)
                  THEN IF env.OPENAI_API_KEY
                         THEN [q1 EXCEPT !.pc = "generate"]
                         ELSE Finish(q1, [status |-> 500,
                                error |-> <<"OpenAI API key not configured">>])
                  ELSE [q1 EXCEPT !.pc = "execute"]]
  /\ UNCHANGED << promptHistory, loader, env, completed >>

\* Lines 365-448: generateObject returns an object or throws.
GenerateFrom(r, objects) ==
  /\ req[r].pc = "generate"
  /\ LET q == [req[r] EXCEPT !.genCalls = @ + 1,
                             !.steps = Append(@, "generate")]
     IN  \/ \E object \in objects :
              req' = [req EXCEPT ![r] = [q EXCEPT !.pc = "compile", !.result = object]]
         \/ req' = [req EXCEPT ![r] = Finish(q, ToolFailed(q, "generation"))]
  /\ UNCHANGED << promptHistory, toolCache, loader, env, completed >>

Generate(r) == GenerateFrom(r, GenObjects)

\* What the call of the compile service may end in (compileTool, lines
\* 235-279): a parsed result, a rejected fetch, a non-2xx response, or a 2xx
\* response whose body is not JSON.
CompileOutcomes == { "ok", "unreachable", "http_error", "bad_json" }

CompileMessage(outcome) ==
  CASE outcome = "unreachable" -> "fetch failed"
    [] outcome = "http_error" -> "Compilation failed"
    [] OTHER -> "Invalid JSON response from compiler"

\* Step 4 with a fallback: when compileTool throws, the generated text is
\* used as the module.
CompiledOrRaw(q, outcome) ==
  [q EXCEPT !.pc = "persist", !.compileFailed = outcome # "ok",
            !.tool = BuiltTool(q.hash,
                       IF outcome = "ok" THEN compileTool(q.result.typescript)
                       ELSE [bundledCode |-> q.result.typescript,
                             packages |-> <<>>],
                       q.result)]

\* Steps 4 and 5 without the write: the tool is built and executed, never
\* stored.
CompiledSkipsPersist(q, outcome) ==
  IF outcome = "ok"
    THEN [q EXCEPT !.pc = "execute",
            !.tool = BuiltTool(q.hash, compileTool(q.result.typescript),
                               q.result)]
    ELSE Finish([q EXCEPT !.compileFailed = TRUE],
                ToolFailed(q, CompileMessage(outcome)))

\* Lines 450-461 for one outcome of the compile service: the tool is built,
\* or the throw of compileTool reaches the handler's catch block.
Compiled(q, outcome) ==
  IF outcome = "ok"
    THEN [q EXCEPT !.pc = "persist",
            !.tool = BuiltTool(q.hash, compileTool(q.result.typescript),
                               q.result)]
    ELSE Finish([q EXCEPT !.compileFailed = TRUE],
                ToolFailed(q, CompileMessage(outcome)))

\* Lines 450-461: compile the generated source and build the tool.
Compile(r) ==
  /\ req[r].pc = "compile"
  /\ \E outcome \in CompileOutcomes :
       LET q == [req[r] EXCEPT !.compileCalls = @ + 1,
                               !.steps = Append(@, "compile")]
       IN  req' = [req EXCEPT ![r] = Compiled(q, outcome)]
  /\ UNCHANGED << promptHistory, toolCache, loader, env, completed >>

\* Line 463: `await cache.set(hash, tool)`; a put that throws reaches the
\* handler's catch block.
Persist(r) ==
  /\ req[r].pc = "persist"
  /\ LET q == [req[r] EXCEPT !.steps = Append(@, "persist")]
     IN  \/ /\ toolCache' = ToolCacheSet(toolCache, q.hash, q.tool)
            /\ req' = [req EXCEPT ![r] = [q EXCEPT !.pc = "execute"]]
         \/ /\ req' = [req EXCEPT ![r] =
                 Finish([q EXCEPT !.putFailed = TRUE], ToolFailed(q, "put failed"))]
            /\ UNCHANGED toolCache
  /\ UNCHANGED << promptHistory, loader, env, completed >>

\* Lines 469-483: executeTool and the 200 response. executeTool throws when
\* env.LOADER is missing, or the isolate cannot be loaded or invoked; the
\* isolate may or may not have been loaded by then.
Execute(r) ==
  /\ req[r].pc = "execute"
  /\ LET q == [req[r] EXCEPT !.steps = Append(@, "execute"),
                             !.reused = req[r].hash \in DOMAIN loader]
         loaded == LoaderGet(loader, q.hash, q.tool.bundledCode)
         result == RunTool(loaded[q.hash], q.input)
     IN  \/ /\ env.LOADER
            /\ loader' = loaded
            /\ req' = [req EXCEPT ![r] = Finish(q,
                 [status |-> 200, output |-> result.output,
                  contentType |-> result.contentType,
                  outputType |-> q.tool.outputType,
                  outputDescription |-> q.tool.outputDescription,
                  toolHash |-> q.hash, packages |-> q.tool.packages,
                  cached |-> CachedFlag(q.tool),
                  generatedCode |-> q.tool.bundledCode])]
            /\ completed' =
                 IF q.genCalls > 0 /\ ~q.forceRegenerate /\ q.hash \notin DOMAIN completed
                   THEN Put(completed, q.hash, [outputType |-> q.tool.outputType,
                                                packages |-> q.tool.packages])
                   ELSE completed
         \/ /\ loader' \in IF env.LOADER THEN {loader, loaded} ELSE {loader}
            /\ req' = [req EXCEPT ![r] = Finish(q, ToolFailed(q, "execution"))]
            /\ UNCHANGED completed
  /\ UNCHANGED << promptHistory, toolCache, env >>

\* The response has been sent; the slot takes the next request.
Respond(r) ==
  /\ req[r].pc = "done"
  /\ req' = [req EXCEPT ![r] = IdleRequest]
  /\ UNCHANGED << promptHistory, toolCache, loader, env, completed >>

\* The substrate evicts an idle isolate.
Evict ==
  /\ \E id \in DOMAIN loader : loader' = Delete(loader, id)
  /\ UNCHANGED << promptHistory, toolCache, env, req, completed >>

\* DELETE /api/clear-history (lines 562-565).
ClearHistory ==
  /\ promptHistory' = <<>>
  /\ UNCHANGED << toolCache, loader, env, req, completed >>

ToolInit ==
  /\ promptHistory = <<>>
  /\ toolCache = NoStore
  /\ loader = NoStore
  /\ env \in [OPENAI_API_KEY : BOOLEAN, LOADER : BOOLEAN]
  /\ req = [r \in Requests |-> IdleRequest]
  /\ completed = NoStore

LogInit ==
  /\ promptLog = NoStore
  /\ now = 0

LegacyInit ==
  /\ generated = NoStore
  /\ r2 = NoStore
  /\ gen = null
  /\ exe = null
  /\ clr = null
  /\ known = {}

RestInit ==
  /\ gae = null
  /\ workspaces = NoStore
  /\ builds = NoStore
  /\ sto = null

AuxInit ==
  /\ tex = null
  /\ derive = null
  /\ search = null
  /\ call = null
  /\ RestInit

Init == ToolInit /\ LogInit /\ LegacyInit /\ AuxInit

Next ==
  \/ \E r \in Requests : Start(r) /\ UNCHANGED << logVars, legacyVars, auxVars >>
  \/ \E r \in Requests : CheckCache(r) /\ UNCHANGED << logVars, legacyVars, auxVars >>
  \/ \E r \in Requests : Generate(r) /\ UNCHANGED << logVars, legacyVars, auxVars >>
  \/ \E r \in Requests : Compile(r) /\ UNCHANGED << logVars, legacyVars, auxVars >>
  \/ \E r \in Requests : Persist(r) /\ UNCHANGED << logVars, legacyVars, auxVars >>
  \/ \E r \in Requests : Execute(r) /\ UNCHANGED << logVars, legacyVars, auxVars >>
  \/ \E r \in Requests : Respond(r) /\ UNCHANGED << logVars, legacyVars, auxVars >>
  \/ Evict /\ UNCHANGED << logVars, legacyVars, auxVars >>
  \/ ClearHistory /\ UNCHANGED << logVars, legacyVars, auxVars >>

Spec == Init /\ [][Next]_vars

\* One client of /api/tool, and a generator that may return a source the
\* structural checks reject.
GateRequests == { "r1" }

NextGate ==
  \/ \E r \in GateRequests : Start(r) /\ UNCHANGED << logVars, legacyVars, auxVars >>
  \/ \E r \in GateRequests : CheckCache(r) /\ UNCHANGED << logVars, legacyVars, auxVars >>
  \/ \E r \in GateRequests :
       GenerateFrom(r, GateObjects) /\ UNCHANGED << logVars, legacyVars, auxVars >>
  \/ \E r \in GateRequests : Compile(r) /\ UNCHANGED << logVars, legacyVars, auxVars >>
  \/ \E r \in GateRequests : Persist(r) /\ UNCHANGED << logVars, legacyVars, auxVars >>
  \/ \E r \in GateRequests : Execute(r) /\ UNCHANGED << logVars, legacyVars, auxVars >>
  \/ \E r \in GateRequests : Respond(r) /\ UNCHANGED << logVars, legacyVars, auxVars >>
  \/ Evict /\ UNCHANGED << logVars, legacyVars, auxVars >>
  \/ ClearHistory /\ UNCHANGED << logVars, legacyVars, auxVars >>

SpecGate == Init /\ [][NextGate]_vars

\* ------------------------------------------------------------------ claims on /api/tool

Answered(r) == req[r].pc = "done"
Succeeded(r) == Answered(r) /\ req[r].resp.status = 200
\* The request carried a non-blank prompt and is past its cache step.
PastCache(r) ==
  /\ req[r].pc \notin { "idle", "cache" }
  /\ ~(Answered(r) /\ req[r].resp.status = 400)

C2_ForceDeletesFirst ==
  \A r \in Requests :
    (req[r].forceRegenerate /\ req[r].after /\ PastCache(r)) =>
      /\ req[r].deleted
      /\ (Answered(r) /\ req[r].tool = null) => req[r].hash \notin DOMAIN toolCache

\* C3, as claimed: every forced Invoke with a non-blank prompt calls the
\* generation backend and the compiler (read with the API key configured).
C3_ForceAlwaysGeneratesAndCompiles ==
  \A r \in Requests :
    (/\ req[r].forceRegenerate /\ Answered(r) /\ req[r].resp.status # 400
     /\ env.OPENAI_API_KEY) =>
      req[r].genCalls >= 1 /\ req[r].compileCalls >= 1

\* The path of a forced Invoke: generation is called whether or not an
\* artifact is cached, the compiler once generation has returned, and
\* nothing is executed without both.
C3_ForcePath ==
  \A r \in Requests :
    (req[r].forceRegenerate /\ PastCache(r) /\ env.OPENAI_API_KEY) =>
      /\ req[r].pc = "generate" \/ req[r].genCalls = 1
      /\ req[r].result # null => (req[r].pc = "compile" \/ req[r].compileCalls = 1)
      /\ (req[r].pc = "execute" \/ Succeeded(r)) =>
           (req[r].genCalls = 1 /\ req[r].compileCalls = 1)

\* The write of a forced Invoke leaves the tool it has just built under
\* the key.
C3_FreshStored ==
  \A r \in Requests :
    (req[r].forceRegenerate /\ req[r].pc = "persist" /\ req'[r].pc = "execute") =>
      Lookup(toolCache', req[r].hash) =
        BuiltTool(req[r].hash, compileTool(req[r].result.typescript), req[r].result)

\* C3, amended: with the API key configured, every forced Invoke with a
\* non-blank prompt calls the generation backend whether or not an artifact
\* is cached for its key, calls the compiler once generation has returned,
\* never executes without both, and the write of its artifact leaves the
\* freshly built artifact under its key.
C3_ForceRegenerates == [](C3_ForcePath) /\ [][C3_FreshStored]_vars

\* C3 witness: a forced Invoke for a key with a stored artifact regenerated,
\* recompiled and answered 200.
C3_Witness ==
  \E r \in Requests :
    /\ Succeeded(r) /\ req[r].forceRegenerate /\ req[r].after
    /\ req[r].genCalls = 1 /\ req[r].compileCalls = 1

\* C4, as claimed: in a 200 response `cached` is true exactly when the
\* executed artifact was read from the ArtifactStore.
C4_CachedIndicator ==
  \A r \in Requests :
    Succeeded(r) => (req[r].resp.cached <=> req[r].genCalls = 0)

\* C5, as claimed: a failed write of the artifact never turns the request
\* into an error.
C5_PersistFailureSwallowed ==
  \A r \in Requests :
    (Answered(r) /\ req[r].putFailed) => req[r].resp.status = 200

\* ------------------------------------------------------------------ PromptLog

\* Prompts appended to the history logs.
LogPrompts == { <<"a">>, <<"b">>, <<"c">>, <<" ", "A">>, <<" ">> }

Max(S) == CHOOSE x \in S : \A y \in S : y <= x

\* storage.list({ reverse: true }): the keys, latest first. A key is
\* Date.now().toString(); the keys of one era have the same number of
\* digits, so their string order is the order of the numbers.
RECURSIVE keysReverse(_)
keysReverse(K) ==
  IF K = {} THEN <<>> ELSE <<Max(K)>> \o keysReverse(K \ {Max(K)})

\* PromptLog.list: the values of the LogLimit latest keys, latest first.
PromptLogList(storage) ==
  LET keys == slice0(keysReverse(DOMAIN storage), LogLimit)
  IN  [i \in 1..Len(keys) |-> storage[keys[i]]]

\* PromptLog.write, line 12: put the prompt under the clock's value.
PromptLogPut(storage, time, prompt) == Put(storage, time, prompt)

\* PromptLog.write, lines 13-18: delete every key after the LogLimit latest.
PromptLogTrim(storage) ==
  LET keep == slice0(keysReverse(DOMAIN storage), LogLimit)
  IN  [k \in { keep[i] : i \in 1..Len(keep) } |-> storage[k]]

\* PromptLog.write when no storage call throws.
PromptLogWrite(storage, time, prompt) ==
  PromptLogTrim(PromptLogPut(storage, time, prompt))

\* How a write may end: done, the put throws, or the put is done and the
\* list or a delete throws.
WriteOutcomes == { "ok", "put_throws", "trim_throws" }

PromptLogWriteEnding(storage, time, prompt, outcome) ==
  CASE outcome = "ok" -> PromptLogWrite(storage, time, prompt)
    [] outcome = "put_throws" -> storage
    [] OTHER -> PromptLogPut(storage, time, prompt)

\* POST /api/store-prompt (part_005, lines 397-407): a non-blank prompt is
\* written to the log, and a failure of the write is dropped.
StorePromptWith(prompt, outcome) ==
  /\ promptLog' = IF ~IsBlank(prompt)
                    THEN PromptLogWriteEnding(promptLog, now, prompt, outcome)
                    ELSE promptLog
  /\ UNCHANGED now

StorePrompt ==
  \E prompt \in LogPrompts, outcome \in WriteOutcomes :
    StorePromptWith(prompt, outcome)

\* DELETE /clear of the PromptLog object: storage.deleteAll().
PromptLogClear ==
  /\ promptLog' = NoStore
  /\ UNCHANGED now

\* A millisecond passes.
Tick ==
  /\ now < MaxClock
  /\ now' = now + 1
  /\ UNCHANGED promptLog

\* promptHistory.add(prompt), as the first step of /api/tool calls it.
HistoryAddWith(prompt) ==
  promptHistory' = PromptHistoryAdd(promptHistory, prompt)

HistoryAdd ==
  /\ \E prompt \in LogPrompts : HistoryAddWith(prompt)
  /\ UNCHANGED << toolCache, loader, env, req, completed >>

NextHistory ==
  \/ HistoryAdd /\ UNCHANGED << logVars, legacyVars, auxVars >>
  \/ ClearHistory /\ UNCHANGED << logVars, legacyVars, auxVars >>
  \/ StorePrompt /\ UNCHANGED << toolVars, legacyVars, auxVars >>
  \/ PromptLogClear /\ UNCHANGED << toolVars, legacyVars, auxVars >>
  \/ Tick /\ UNCHANGED << toolVars, legacyVars, auxVars >>

SpecHistory == Init /\ [][NextHistory]_vars

\* ------------------------------------------------------------------ claims on the history logs

\* C9: the list returned by ListHistory is never longer than the log's
\* capacity, for the in-memory PromptHistory and for the durable PromptLog.
C9_HistoryBound ==
  /\ Len(PromptHistoryList(promptHistory)) <= HistoryLimit
  /\ Len(PromptLogList(promptLog)) <= LogLimit

\* C9 witness: both lists are full, and the durable log's storage holds more
\* entries than the list returns.
C9_Witness ==
  /\ Len(PromptHistoryList(promptHistory)) = HistoryLimit
  /\ Len(PromptLogList(promptLog)) = LogLimit
  /\ Cardinality(DOMAIN promptLog) > LogLimit

\* a is b with some entries left out, the others in b's order.
RECURSIVE IsSubsequence(_, _)
IsSubsequence(a, b) ==
  IF a = <<>> THEN TRUE
  ELSE IF b = <<>> THEN FALSE
  ELSE IF Head(a) = Head(b) THEN IsSubsequence(Tail(a), Tail(b))
  ELSE IsSubsequence(a, Tail(b))

\* After an append of p to a log that listed `before` and now lists `after`:
\* p is first, the other entries are entries of `before` in their order, and
\* when the log was full what left the list is its last, least recent entry.
AppendedInOrder(before, after, p, limit, dedup) ==
  LET others == IF dedup THEN filterNot(before, p) ELSE before
  IN  /\ after # <<>>
      /\ Head(after) = p
      /\ IsSubsequence(Tail(after), others)
      /\ Len(others) >= limit => Tail(after) = slice0(others, limit - 1)

\* One step that appends a non-blank p to either log, and what the list
\* is after it.
C10_AppendStep ==
  \A p \in LogPrompts :
    /\ (~IsBlank(p) /\ HistoryAddWith(p) /\ UNCHANGED logVars) =>
         AppendedInOrder(PromptHistoryList(promptHistory),
                         PromptHistoryList(promptHistory'), p, HistoryLimit, TRUE)
    /\ (~IsBlank(p) /\ StorePromptWith(p, "ok") /\ UNCHANGED toolVars) =>
         AppendedInOrder(PromptLogList(promptLog), PromptLogList(promptLog'),
                         p, LogLimit, FALSE)

\* C10, as claimed: right after an append of a non-blank p the list starts
\* with p, keeps the relative order of the other entries, and a full log
\* loses its least recently appended entry.
C10_OrderAndEviction == [][C10_AppendStep]_vars

\* ------------------------------------------------------------------ earlier worker: helpers

\* What generateObject may return to generate-code: typescript and example.
LegacyObject(code, example) == [typescript |-> code, example |-> example]

\* The structural checks of generate-code (part_005, lines 689-706).
LooksLikeWorker(code) == code.exportDefault /\ code.fetchCall
BracesMatch(code) == code.opens = code.closes
PassesValidation(code) ==
  LooksLikeWorker(code) /\ BracesMatch(code) /\ ~code.esmTypo

\* A get that never finds the object.
R2ToolCacheGetNothing(bucket, hash, readOk) == null

\* R2ToolCache.get: the parsed object, or null when the object is absent or
\* the read throws.
R2ToolCacheGet(bucket, hash, readOk) ==
  IF readOk THEN Lookup(bucket, hash) ELSE null

\* R2ToolCache.set: put { hash, ...tool } under tools/<hash>/compiled.json.
R2ToolCacheSet(bucket, hash, tool) ==
  Put(bucket, hash, [hash |-> hash, code |-> tool.code,
                     nodeModules |-> tool.nodeModules, metadata |-> tool.metadata])

\* R2ToolCache.delete: a delete that throws is logged and dropped.
R2ToolCacheDelete(bucket, hash, deleteOk) ==
  IF deleteOk THEN Delete(bucket, hash) ELSE bucket

\* The tool execute-tool caches from the compiler's result (lines 479-486).
CompiledTool(compilerResult) ==
  [code |-> compilerResult.mainCode,
   nodeModules |-> compilerResult.additionalModules,
   metadata |-> [packages |-> compilerResult.packages]]

\* POST /api/tools/execute (lines 834-888): 404 when the cache returns no
\* tool for the prompt's hash.
ExecuteCachedFinds(bucket, prompt, readOk) ==
  R2ToolCacheGet(bucket, hashPromptTrim(prompt), readOk) # null

\* The prompts a request adds to those that were invoked or stored.
Naming(prompt) == IF IsBlank(prompt) THEN {} ELSE {prompt}

Reply(q, resp) == [q EXCEPT !.pc = "done", !.resp = resp]

\* The response of the framework to a handler that throws.
Unhandled == [status |-> 500, error |-> "Internal Server Error"]

\* ------------------------------------------------------------------ earlier worker: POST /api/generate-code

\* Lines 557-568: reject a blank prompt, hash the prompt.
GenArrives(prompt) ==
  /\ gen' = IF IsBlank(prompt)
              THEN [pc |-> "done", prompt |-> prompt,
                    hash |-> NullHash, object |-> null, readFailed |-> FALSE,
                    writeFailed |-> FALSE, genCalls |-> 0,
                    resp |-> [status |-> 400, error |-> "Missing prompt"]]
              ELSE [pc |-> "read", prompt |-> prompt,
                    hash |-> hashPromptTrim(prompt), object |-> null,
                    readFailed |-> FALSE, writeFailed |-> FALSE,
                    genCalls |-> 0, resp |-> null]
  /\ known' = known \cup Naming(prompt)

GenStart(prompts) ==
  /\ gen = null
  /\ \E prompt \in prompts : GenArrives(prompt)
  /\ UNCHANGED << generated, r2, exe, clr, loader >>

\* Lines 570-583: fetch /get-generated from the prompt's object. The fetch
\* is outside the handler's try block: when it throws, the handler throws.
GenRead ==
  /\ gen # null /\ gen.pc = "read"
  /\ \E readOk \in BOOLEAN :
       LET cached == Lookup(generated, gen.hash)
       IN  gen' =
             IF ~readOk
               THEN Reply([gen EXCEPT !.readFailed = TRUE], Unhandled)
             ELSE IF cached # null
               THEN Reply(gen, [status |-> 200, body |-> cached])
             ELSE IF ~env.OPENAI_API_KEY
               THEN Reply(gen, [status |-> 500,
                                error |-> "OpenAI API key not configured"])
             ELSE [gen EXCEPT !.pc = "generate"]
  /\ UNCHANGED << generated, r2, exe, clr, known, loader >>

\* Lines 685-706: the structural checks on the generated object.
Validated(q, object) ==
  IF PassesValidation(object.typescript)
    THEN [q EXCEPT !.pc = "write", !.object = object]
    ELSE Reply(q, [status |-> 500, error |-> "validation"])

\* Lines 726-729: the catch block of the handler.
GenerationThrew(q) == Reply(q, [status |-> 500, error |-> "OpenAI error"])

\* Lines 585-706: search packages, generate with retries, validate. A throw
\* is caught at line 726; a source that fails a check is answered with 500.
GenGenerate(objects) ==
  /\ gen # null /\ gen.pc = "generate"
  /\ LET q == [gen EXCEPT !.genCalls = @ + 1]
     IN  \/ \E object \in objects : gen' = Validated(q, object)
         \/ gen' = GenerationThrew(q)
  /\ UNCHANGED << generated, r2, exe, clr, known, loader >>

\* Lines 708-724: write the result to the prompt's object; a write that
\* throws is logged and dropped.
GenWrite ==
  /\ gen # null /\ gen.pc = "write"
  /\ \E writeOk \in BOOLEAN :
       /\ generated' = IF writeOk THEN Put(generated, gen.hash, gen.object)
                       ELSE generated
       /\ gen' = Reply([gen EXCEPT !.writeFailed = ~writeOk],
                       [status |-> 200, body |-> gen.object])
  /\ UNCHANGED << r2, exe, clr, known, loader >>

GenRespond ==
  /\ gen # null /\ gen.pc = "done"
  /\ gen' = null
  /\ UNCHANGED << generated, r2, exe, clr, known, loader >>

\* ------------------------------------------------------------------ earlier worker: POST /api/execute-tool

\* A key taken from the code whatever the prompt.
ExecuteToolHashOfCode(prompt, code) == hashPromptTrim(<<code.body>>)

\* Line 425: the key is the hash of the prompt when the request has one
\* that is not the empty string, else the hash of the code. The text of a
\* source is its body, which no two sources share.
ExecuteToolHash(prompt, code) ==
  IF prompt # <<>> THEN hashPromptTrim(prompt)
  ELSE hashPromptTrim(<<code.body>>)

\* Lines 411-426: reject missing code and a missing loader, hash the prompt.
ExeArrives(prompt, code, input) ==
  LET q == [pc |-> "read", prompt |-> prompt, code |-> code,
            input |-> input,
            hash |-> IF code = null \/ ~env.LOADER THEN NullHash
                     ELSE ExecuteToolHash(prompt, code),
            module |-> null, compilerResult |-> null, hit |-> FALSE,
            present |-> FALSE, readFailed |-> FALSE, setFailed |-> FALSE,
            compileCalls |-> 0, resp |-> null]
  IN  /\ exe' = IF code = null
                  THEN Reply(q, [status |-> 400, error |-> "No code provided"])
                ELSE IF ~env.LOADER
                  THEN Reply(q, [status |-> 500,
                                 error |-> "Worker Loaders not available"])
                ELSE q
      /\ known' = known \cup Naming(prompt)

ExeStart(prompts, codes, inputs) ==
  /\ exe = null
  /\ \E prompt \in prompts, code \in codes \cup {null}, input \in inputs :
       ExeArrives(prompt, code, input)
  /\ UNCHANGED << generated, r2, gen, clr, loader >>

\* `if (cachedTool)` never taken.
IsCacheHitNever(cachedTool) == FALSE

\* `if (cachedTool)` (line 435).
IsCacheHit(cachedTool) == cachedTool # null

\* Lines 430-461: the cache read; a hit executes the cached modules.
\* `present` records whether the bucket held an artifact under the key.
ExeRead ==
  /\ exe # null /\ exe.pc = "read"
  /\ \E readOk \in BOOLEAN :
       LET cachedTool == R2ToolCacheGet(r2, exe.hash, readOk)
           q == [exe EXCEPT !.readFailed = ~readOk,
                            !.present = exe.hash \in DOMAIN r2]
       IN  exe' = IF IsCacheHit(cachedTool)
                    THEN [q EXCEPT !.pc = "execute", !.hit = TRUE,
                                   !.module = cachedTool.code]
                    ELSE [q EXCEPT !.pc = "compile"]
  /\ UNCHANGED << generated, r2, gen, clr, known, loader >>

\* Lines 463-475: compileWithBun; a failure is rethrown and answered with
\* 500 by the handler's catch block.
ExeCompile ==
  /\ exe # null /\ exe.pc = "compile"
  /\ \E outcome \in CompileOutcomes :
       LET q == [exe EXCEPT !.compileCalls = @ + 1]
       IN  exe' = IF outcome = "ok"
                    THEN [q EXCEPT !.pc = "set",
                                   !.compilerResult = compileCode(q.code),
                                   !.module = compileCode(q.code).mainCode]
                    ELSE Reply(q, [status |-> 500,
                                   error |-> CompileMessage(outcome)])
  /\ UNCHANGED << generated, r2, gen, clr, known, loader >>

\* Lines 477-491: cache the compiled result; a set that throws is logged
\* and the request goes on.
ExeSet ==
  /\ exe # null /\ exe.pc = "set"
  /\ \E setOk \in BOOLEAN :
       /\ r2' = IF setOk
                  THEN R2ToolCacheSet(r2, exe.hash, CompiledTool(exe.compilerResult))
                  ELSE r2
       /\ exe' = [exe EXCEPT !.pc = "execute", !.setFailed = ~setOk]
  /\ UNCHANGED << generated, gen, clr, known, loader >>

\* Lines 438-458 and 493-522: load or reuse the isolate, fetch the tool,
\* answer with its output; a throw is answered with 500.
ExeExecute ==
  /\ exe # null /\ exe.pc = "execute"
  /\ LET loaded == LoaderGet(loader, exe.hash, exe.module)
         result == RunTool(loaded[exe.hash], exe.input)
     IN  \/ /\ loader' = loaded
            /\ exe' = Reply(exe, [status |-> 200, output |-> result.output,
                                  contentType |-> result.contentType])
         \/ /\ loader' \in {loader, loaded}
            /\ exe' = Reply(exe, [status |-> 500, error |-> "execution"])
  /\ UNCHANGED << generated, r2, gen, clr, known >>

ExeRespond ==
  /\ exe # null /\ exe.pc = "done"
  /\ exe' = null
  /\ UNCHANGED << generated, r2, gen, clr, known, loader >>

\* Inputs of the earlier worker's requests.
\* generate-code gets a prompt, with white space after it, or a blank one;
\* execute-tool gets a prompt, with white space after it, or none.
LegacyPrompts == { <<"a">>, <<"a", " ">>, <<" ">> }
ExecutePrompts == { <<"a">>, <<"a", " ">>, <<>> }
LegacyCodes == { SrcEcho, SrcUuid }
LegacyObjects ==
  { LegacyObject(SrcEcho, "hello"), LegacyObject(SrcUuid, ""),
    LegacyObject(SrcUnbalanced, "") }

NextLegacy ==
  \/ GenStart(LegacyPrompts) /\ UNCHANGED << workerVars, logVars, auxVars >>
  \/ GenRead /\ UNCHANGED << workerVars, logVars, auxVars >>
  \/ GenGenerate(LegacyObjects) /\ UNCHANGED << workerVars, logVars, auxVars >>
  \/ GenWrite /\ UNCHANGED << workerVars, logVars, auxVars >>
  \/ GenRespond /\ UNCHANGED << workerVars, logVars, auxVars >>
  \/ ExeStart(ExecutePrompts, LegacyCodes, Inputs) /\ UNCHANGED << workerVars, logVars, auxVars >>
  \/ ExeRead /\ UNCHANGED << workerVars, logVars, auxVars >>
  \/ ExeCompile /\ UNCHANGED << workerVars, logVars, auxVars >>
  \/ ExeSet /\ UNCHANGED << workerVars, logVars, auxVars >>
  \/ ExeExecute /\ UNCHANGED << workerVars, logVars, auxVars >>
  \/ ExeRespond /\ UNCHANGED << workerVars, logVars, auxVars >>
  \/ Evict /\ UNCHANGED << logVars, legacyVars, auxVars >>

SpecLegacy == Init /\ [][NextLegacy]_vars

\* ------------------------------------------------------------------ earlier worker: POST /api/tools/execute

\* Lines 836-843: reject a blank prompt, hash the prompt. `before` keeps
\* what the history, the generated-code objects and the bucket held when
\* the request came in.
TexStart(prompts, inputs) ==
  /\ tex = null
  /\ \E prompt \in prompts, input \in inputs :
       LET q == [pc |-> "read", prompt |-> prompt, input |-> input,
                 hash |-> NullHash, tool |-> null, present |-> FALSE,
                 readFailed |-> FALSE, resp |-> null,
                 before |-> << promptLog, generated, r2 >>]
       IN  /\ tex' = IF IsBlank(prompt)
                       THEN Reply(q, [status |-> 400, error |-> "Missing prompt"])
                       ELSE [q EXCEPT !.hash = hashPromptTrim(prompt)]
           /\ known' = known \cup Naming(prompt)
  /\ UNCHANGED << generated, r2, gen, exe, clr, loader >>

\* Lines 844-853: the cache read; 404 when it returns no tool.
TexRead ==
  /\ tex # null /\ tex.pc = "read"
  /\ \E readOk \in BOOLEAN :
       LET cachedTool == R2ToolCacheGet(r2, tex.hash, readOk)
           q == [tex EXCEPT !.readFailed = ~readOk,
                            !.present = Lookup(r2, tex.hash) # null,
                            !.tool = cachedTool]
       IN  tex' = IF cachedTool = null
                    THEN Reply(q, [status |-> 404, error |-> "Tool not cached"])
                    ELSE [q EXCEPT !.pc = "execute"]
  /\ UNCHANGED << generated, r2, gen, exe, clr, known, loader >>

\* Lines 855-887: load or reuse the isolate, fetch the tool, answer with
\* its output. There is no check of env.LOADER: without the binding the
\* call throws, and a throw is answered with 500.
TexExecute ==
  /\ tex # null /\ tex.pc = "execute"
  /\ LET loaded == LoaderGet(loader, tex.hash, tex.tool.code)
         result == RunTool(loaded[tex.hash], tex.input)
     IN  \/ /\ env.LOADER
            /\ loader' = loaded
            /\ tex' = Reply(tex, [status |-> 200, result |-> result.output,
                                  contentType |-> result.contentType,
                                  cached |-> TRUE, toolHash |-> tex.hash])
         \/ /\ loader' \in IF env.LOADER THEN {loader, loaded} ELSE {loader}
            /\ tex' = Reply(tex, [status |-> 500, error |-> "Execution failed"])
  /\ UNCHANGED << generated, r2, gen, exe, clr, known >>

TexRespond ==
  /\ tex # null /\ tex.pc = "done"
  /\ tex' = null
  /\ UNCHANGED << generated, r2, gen, exe, clr, known, loader >>

\* ------------------------------------------------------------------ earlier worker: DELETE /clear

\* Lines 366-371: list the history. Nothing in the handler catches a throw.
ClrList ==
  /\ clr = null
  /\ \E listOk \in BOOLEAN :
       LET q == [pc |-> "generated", prompts |-> PromptLogList(promptLog),
                 i |-> 1, failures |-> 0, resp |-> null]
       IN  clr' = IF listOk /\ q.prompts # <<>> THEN q
                  ELSE IF listOk THEN [q EXCEPT !.pc = "history"]
                  ELSE Reply([q EXCEPT !.prompts = <<>>], Unhandled)
  /\ UNCHANGED << promptLog, now, generated, r2, gen, exe, known, loader >>

\* Lines 376-382: DELETE /clear on the object of the i-th prompt's hash,
\* which deletes all it stores. The call is awaited bare: when it throws,
\* the handler throws.
ClrGenerated ==
  /\ clr # null /\ clr.pc = "generated"
  /\ \E clearOk \in BOOLEAN :
       LET promptHash == hashPromptTrim(clr.prompts[clr.i])
       IN  /\ generated' = IF clearOk THEN Delete(generated, promptHash)
                           ELSE generated
           /\ clr' = IF clearOk THEN [clr EXCEPT !.pc = "artifact"]
                     ELSE Reply([clr EXCEPT !.failures = @ + 1], Unhandled)
  /\ UNCHANGED << promptLog, now, r2, gen, exe, known, loader >>

\* Line 385 and the loop's step: cache.delete(promptHash), which drops its
\* own failure; then the next prompt, or the history after the last one.
ClrArtifact ==
  /\ clr # null /\ clr.pc = "artifact"
  /\ \E deleteOk \in BOOLEAN :
       LET promptHash == hashPromptTrim(clr.prompts[clr.i])
       IN  /\ r2' = R2ToolCacheDelete(r2, promptHash, deleteOk)
           /\ clr' = [clr EXCEPT
                        !.failures = IF deleteOk THEN @ ELSE @ + 1,
                        !.i = @ + 1,
                        !.pc = IF clr.i < Len(clr.prompts) THEN "generated"
                               ELSE "history"]
  /\ UNCHANGED << promptLog, now, generated, gen, exe, known, loader >>

\* Lines 388-393: DELETE /clear on the history object, then "cleared".
ClrHistory ==
  /\ clr # null /\ clr.pc = "history"
  /\ \E clearOk \in BOOLEAN :
       IF clearOk
         THEN /\ PromptLogClear
              /\ clr' = Reply(clr, [status |-> 200, body |-> "cleared"])
         ELSE /\ UNCHANGED << promptLog, now >>
              /\ clr' = Reply(clr, Unhandled)
  /\ UNCHANGED << generated, r2, gen, exe, known, loader >>

\* The next request may start once the answer is out.
ClrRespond ==
  /\ clr # null /\ clr.pc = "done"
  /\ clr' = null
  /\ UNCHANGED << promptLog, now, generated, r2, gen, exe, known, loader >>

\* POST /api/store-prompt, with the prompts that were stored remembered.
StoreKnown(prompts, outcomes) ==
  /\ \E prompt \in prompts, outcome \in outcomes :
       /\ StorePromptWith(prompt, outcome)
       /\ known' = IF outcome = "put_throws" THEN known
                   ELSE known \cup Naming(prompt)
  /\ UNCHANGED << generated, r2, gen, exe, clr, loader >>

ClearPrompts == { <<"a">>, <<"b">> }
ClearCodes == { SrcEcho }
ClearObjects == { LegacyObject(SrcEcho, "hello") }

\* No request is in flight.
Quiet == gen = null /\ exe = null /\ clr = null /\ tex = null

\* The earlier worker with its requests one at a time.
NextClear ==
  \/ Quiet /\ GenStart(ClearPrompts) /\ UNCHANGED << workerVars, logVars, auxVars >>
  \/ GenRead /\ UNCHANGED << workerVars, logVars, auxVars >>
  \/ GenGenerate(ClearObjects) /\ UNCHANGED << workerVars, logVars, auxVars >>
  \/ GenWrite /\ UNCHANGED << workerVars, logVars, auxVars >>
  \/ GenRespond /\ UNCHANGED << workerVars, logVars, auxVars >>
  \/ Quiet /\ ExeStart(ClearPrompts, ClearCodes, Inputs)
       /\ UNCHANGED << workerVars, logVars, auxVars >>
  \/ ExeRead /\ UNCHANGED << workerVars, logVars, auxVars >>
  \/ ExeCompile /\ UNCHANGED << workerVars, logVars, auxVars >>
  \/ ExeSet /\ UNCHANGED << workerVars, logVars, auxVars >>
  \/ ExeExecute /\ UNCHANGED << workerVars, logVars, auxVars >>
  \/ ExeRespond /\ UNCHANGED << workerVars, logVars, auxVars >>
  \/ Quiet /\ TexStart(ClearPrompts \cup { <<" ">> }, Inputs)
       /\ UNCHANGED << workerVars, logVars, derive, restVars, search, call >>
  \/ TexRead /\ UNCHANGED << workerVars, logVars, derive, restVars, search, call >>
  \/ TexExecute /\ UNCHANGED << workerVars, logVars, derive, restVars, search, call >>
  \/ TexRespond /\ UNCHANGED << workerVars, logVars, derive, restVars, search, call >>
  \/ Quiet /\ StoreKnown(ClearPrompts, {"ok"}) /\ UNCHANGED << workerVars, auxVars >>
  \/ Quiet /\ Tick /\ UNCHANGED << toolVars, legacyVars, auxVars >>
  \/ Quiet /\ ClrList /\ UNCHANGED << workerVars, auxVars >>
  \/ ClrGenerated /\ UNCHANGED << workerVars, auxVars >>
  \/ ClrArtifact /\ UNCHANGED << workerVars, auxVars >>
  \/ ClrHistory /\ UNCHANGED << workerVars, auxVars >>
  \/ ClrRespond /\ UNCHANGED << workerVars, auxVars >>

\* The worker with both bindings configured.
InitClear == Init /\ env.OPENAI_API_KEY /\ env.LOADER

SpecClear == InitClear /\ [][NextClear]_vars

\* ------------------------------------------------------------------ claims on the stores' reads and on DELETE /clear

\* C6: a store read that fails is treated as an absent key: an execute-tool
\* request whose artifact read failed takes the miss path, and a
\* generate-code request whose generated-code read failed is not ended by
\* the handler throwing.
C6_ReadFailureIsMiss ==
  /\ (exe # null /\ exe.readFailed) => ~exe.hit
  /\ (gen # null /\ gen.readFailed) => gen.resp # Unhandled

\* DELETE /clear has answered "cleared".
ClearCompleted == clr # null /\ clr.pc = "done" /\ clr.resp.status = 200

\* C7: once DELETE /clear has answered "cleared", with no other request in
\* flight, the history lists nothing and no prompt that was invoked or
\* stored has an artifact or a generated source under its key.
C7_ClearCompleteness ==
  ClearCompleted =>
    /\ PromptLogList(promptLog) = <<>>
    /\ \A prompt \in known :
         /\ ~ExecuteCachedFinds(r2, prompt, TRUE)
         /\ Lookup(generated, hashPromptTrim(prompt)) = null

\* C8: a DELETE /clear in which the deletion of a prompt's generated source
\* or artifact failed has still visited every listed prompt, has cleared
\* the history and answers "cleared".
C8_ClearBestEffort ==
  (clr # null /\ clr.pc = "done" /\ clr.failures > 0) =>
    /\ clr.i > Len(clr.prompts)
    /\ promptLog = NoStore
    /\ clr.resp.status = 200

\* ------------------------------------------------------------------ key derivation

\* Longest prompt whose key is derived.
MaxPromptLen == 3

\* The characters of the prompts: a letter in both cases and white space.
KeyChars == { "a", "A", " " }

\* All prompts of at most MaxPromptLen characters.
KeyStrings == UNION { [1..n -> KeyChars] : n \in 0..MaxPromptLen }

\* Two prompts arrive; no key is derived yet.
InitKey ==
  /\ ToolInit /\ LogInit /\ LegacyInit
  /\ tex = null /\ search = null /\ call = null
  /\ RestInit
  /\ derive \in [s1 : KeyStrings, s2 : KeyStrings, done : {FALSE},
                 k1 : {NullHash}, k2 : {NullHash},
                 t1 : {NullHash}, t2 : {NullHash}]

\* Both hashPrompt functions are applied to both prompts: k by the one of
\* worker.tsx, t by the one of utils/compiler.ts.
DeriveKeys ==
  /\ ~derive.done
  /\ derive' = [derive EXCEPT !.done = TRUE,
                              !.k1 = hashPrompt(derive.s1),
                              !.k2 = hashPrompt(derive.s2),
                              !.t1 = hashPromptTrim(derive.s1),
                              !.t2 = hashPromptTrim(derive.s2)]
  /\ UNCHANGED << toolVars, logVars, legacyVars, tex, search, call, restVars >>

NextKey == DeriveKeys

SpecKey == InitKey /\ [][NextKey]_vars

\* b is a with white space put before and after it.
IsPadded(a, b) ==
  \E i, j \in 1..(Len(b) + 1) :
    /\ SubSeq(b, i, j - 1) = a
    /\ \A n \in 1..Len(b) : (n < i \/ n >= j) => IsSpace(b[n])

\* a and b differ in the case of letters only.
SameButCase(a, b) ==
  Len(a) = Len(b) /\ \A n \in 1..Len(a) : LowerChar(a[n]) = LowerChar(b[n])

\* C11, as claimed: prompts with the same normal form get the same key from
\* either hashPrompt; padding with white space or changing the case of
\* letters does not change the key.
C11_KeyDeterminism ==
  derive.done =>
    /\ toLowerCase(trim(derive.s1)) = toLowerCase(trim(derive.s2)) =>
         (derive.k1 = derive.k2 /\ derive.t1 = derive.t2)
    /\ IsPadded(derive.s1, derive.s2) =>
         (derive.k1 = derive.k2 /\ derive.t1 = derive.t2)
    /\ SameButCase(derive.s1, derive.s2) =>
         (derive.k1 = derive.k2 /\ derive.t1 = derive.t2)

\* C11, amended: each hashPrompt gives the same key to prompts with the
\* same normal form under its own normalization (trim and lower-case for
\* worker.tsx, trim for utils/compiler.ts); padding with white space changes
\* neither key, and changing the case of letters does not change the key of
\* worker.tsx.
C11_KeyDeterminismPerNormalization ==
  derive.done =>
    /\ toLowerCase(trim(derive.s1)) = toLowerCase(trim(derive.s2)) =>
         derive.k1 = derive.k2
    /\ trim(derive.s1) = trim(derive.s2) => derive.t1 = derive.t2
    /\ IsPadded(derive.s1, derive.s2) =>
         (derive.k1 = derive.k2 /\ derive.t1 = derive.t2)
    /\ SameButCase(derive.s1, derive.s2) => derive.k1 = derive.k2
    /\ derive.k1 = derive.k2 =>
         toLowerCase(trim(derive.s1)) = toLowerCase(trim(derive.s2))

\* C11 witness: two prompts that differ in padding and in case were given
\* the same key by worker.tsx, and different keys by utils/compiler.ts.
C11_Witness ==
  /\ derive.done
  /\ derive.s1 = <<"a">> /\ derive.s2 = <<" ", "A", " ">>
  /\ derive.k1 = derive.k2
  /\ derive.t1 # derive.t2

\* ------------------------------------------------------------------ claims on the keys of the earlier worker

\* The requests that have derived their key hold the hash of their prompt,
\* and every entry of the generated-code objects, of the bucket and of the
\* loader is under the hash of a prompt that was invoked.
C12_SameKey ==
  /\ (gen # null /\ ~IsBlank(gen.prompt)) => gen.hash = hashPromptTrim(gen.prompt)
  /\ (exe # null /\ exe.pc # "done") => exe.hash = hashPromptTrim(exe.prompt)
  /\ (tex # null /\ ~IsBlank(tex.prompt)) => tex.hash = hashPromptTrim(tex.prompt)
  /\ DOMAIN generated \cup DOMAIN r2 \cup DOMAIN loader
       \subseteq { hashPromptTrim(prompt) : prompt \in known }
  /\ (tex # null /\ tex.pc = "done" /\ ~tex.readFailed /\ ~IsBlank(tex.prompt)) =>
       (tex.resp.status = 404 <=> hashPromptTrim(tex.prompt) \notin DOMAIN tex.before[3])

\* A deletion of DELETE /clear that succeeds leaves nothing under the hash
\* of the prompt it is at.
C12_ClearDeletesKey ==
  /\ (clr # null /\ clr.pc = "generated" /\ clr'.pc = "artifact") =>
       Lookup(generated', hashPromptTrim(clr.prompts[clr.i])) = null
  /\ (clr # null /\ clr.pc = "artifact" /\ clr' # null
        /\ clr'.failures = clr.failures /\ clr'.pc # "artifact") =>
       ~ExecuteCachedFinds(r2', clr.prompts[clr.i], TRUE)

\* C12: generate-code, execute-tool, tools/execute and DELETE /clear use the
\* same key for a prompt, the hash of the prompt under one normalization,
\* for the generated-code lookup, the artifact lookup and write, the isolate
\* id and the deletions, so that what one writes the others find.
C12_KeyAgreement == [](C12_SameKey) /\ [][C12_ClearDeletesKey]_vars

\* C12 witness: tools/execute found and executed, under the prompt's key,
\* an artifact that execute-tool wrote, with the generated source of
\* generate-code and the isolate under the same key.
C12_Witness ==
  /\ tex # null /\ tex.pc = "done" /\ tex.resp.status = 200
  /\ tex.hash \in DOMAIN generated
  /\ tex.hash \in DOMAIN r2
  /\ tex.hash \in DOMAIN loader

\* ------------------------------------------------------------------ claims on tools/execute

\* The frame of tools/execute: while it runs nothing is generated or
\* compiled, and the history, the generated-code objects and the bucket
\* stay as they were.
TexFrame ==
  tex # null =>
    /\ gen = null /\ exe = null
    /\ << promptLog, generated, r2 >> = tex.before

NoPackageImport(code) == Len(SelectSeq(code.imports, IsPackageSpecifier)) = 0

\* The request generated a source and is past its compile step.
PastCompile(r) ==
  /\ req[r].genCalls > 0
  /\ req[r].result # null
  /\ req[r].pc \in { "persist", "execute", "done" }

\* C13: when the generated source declares no import of an npm package, the
\* request does not call the compile service at all, and the module it
\* stores and executes is the generated text itself.
C13_NoDependencyFastPath ==
  \A r \in Requests :
    (PastCompile(r) /\ NoPackageImport(req[r].result.typescript)) =>
      /\ req[r].compileCalls = 0
      /\ req[r].tool # null
      /\ req[r].tool.bundledCode = req[r].result.typescript

\* C14: a request whose compile step failed (service unreachable, non-2xx
\* answer for an install or bundle error, body that is not JSON) is answered
\* with an error and has built no tool; the failing step writes no artifact
\* and loads no isolate, and the request's only further step is to return
\* its response, so it neither stores nor executes anything.
C14_FailedIsAnswered ==
  \A r \in Requests :
    req[r].compileFailed =>
      /\ req[r].pc = "done"
      /\ req[r].resp.status = 500
      /\ req[r].tool = null
      /\ ~req[r].putFailed

C14_FailedStepWritesNothing ==
  \A r \in Requests :
    (req'[r] # req[r] /\ (req[r].compileFailed \/ req'[r].compileFailed)) =>
      /\ toolCache' = toolCache
      /\ loader' = loader
      /\ req'[r].compileFailed => req[r].pc = "compile"
      /\ req[r].compileFailed => req'[r] = IdleRequest

C14_CompileFailureIsFatal ==
  [](C14_FailedIsAnswered) /\ [][C14_FailedStepWritesNothing]_vars

\* A request for the key "a" failed in its compile step, and nothing is
\* stored or loaded.
C14_Witness ==
  \E r \in Requests :
    /\ req[r].compileFailed
    /\ req[r].compileCalls = 1
    /\ req[r].hash = hashPrompt(<<"a">>)
    /\ req[r].hash \notin DOMAIN toolCache
    /\ req[r].hash \notin DOMAIN loader

\* The same for execute-tool of the earlier worker (C14, second handler): a
\* compile that fails answers 500, and the step stores and loads nothing.
C14_LegacyCompileFailure ==
  [][(exe # null /\ exe.pc = "compile" /\ exe' # null /\ exe'.pc = "done") =>
       /\ exe'.resp.status = 500
       /\ exe'.module = null
       /\ r2' = r2
       /\ loader' = loader]_vars

\* ------------------------------------------------------------------ claims on validation

\* C15: a generated source that fails a structural check (no "export
\* default" with "fetch(", unequal counts of "{" and "}", or "https:/esm.sh")
\* is never compiled, never built into a tool that is stored or executed,
\* and its request does not answer 200.
C15_ValidationGate ==
  \A r \in Requests :
    (req[r].result # null /\ ~PassesValidation(req[r].result.typescript)) =>
      /\ req[r].compileCalls = 0
      /\ req[r].tool = null
      /\ req[r].pc = "done" => req[r].resp.status # 200

\* ------------------------------------------------------------------ claims on execute-tool

\* The execute-tool request carries a prompt and is past its cache read.
ExeKeyed ==
  /\ exe # null
  /\ exe.prompt # <<>>
  /\ exe.hash # NullHash
  /\ exe.pc # "read"

C17_HitState ==
  ExeKeyed =>
    /\ exe.hash = hashPromptTrim(exe.prompt)
    /\ exe.hit <=> (exe.present /\ ~exe.readFailed)
    /\ exe.hit => /\ exe.compileCalls = 0
                  /\ exe.compilerResult = null
                  /\ exe.pc \in { "execute", "done" }

C17_HitStep ==
  (exe # null /\ exe' # null /\ exe'.hit) =>
    /\ r2' = r2
    /\ ~exe.hit => exe'.module = r2[exe.hash].code

GenerateRecurs == 3
SearchRecurs == 2

\* String.prototype.includes
includes(s, sub) ==
  \E i \in 1..(Len(s) - Len(sub) + 1) : SubSeq(s, i, i + Len(sub) - 1) = sub

\* A schedule that never stops recurring.
RecursForever(n, retries) == TRUE

\* Schedule.recurs(n): the schedule recurs while fewer than n recurrences
\* were made.
Recurs(n, retries) == retries < n

\* The predicate of Schedule.whileInput (lines 70-74).
ShouldRetry(message) ==
  \/ includes(message, "rate_limit")
  \/ includes(message, "network")
  \/ includes(message, "timeout")

\* The `catch` of Effect.tryPromise in generateWithRetry (lines 57-63).
GenerateCatch(error) ==
  IF error.code = "rate_limit_exceeded"
    THEN "OpenAI rate limit: " \o error.message
    ELSE "OpenAI generation failed: " \o error.message

\* What generateFn may reject with: `kind` is what went wrong, `code` and
\* `message` what the thrown object carries.
BackendFailures ==
  { [kind |-> "rate_limit", code |-> "rate_limit_exceeded",
     message |-> "Rate limit reached for requests"],
    [kind |-> "network", code |-> "", message |-> "network error"],
    [kind |-> "network", code |-> "", message |-> "fetch failed"],
    [kind |-> "content", code |-> "",
     message |-> "No object generated: response did not match schema."] }

\* The message of the TimeoutException of Effect.timeout("60 seconds"):
\* none, or the text the library gives it.
TimeoutMessages ==
  { "", "Operation timed out before the specified duration of '1m' elapsed" }

\* What the registry search may answer, and how an attempt may fail.
SearchResults == { <<>>, << "uuid" >> }
SearchFailures == { "rejected", "timeout" }

\* Effect.catchAll left out: the failure of the last attempt is rethrown.
SearchRethrows(q) == [q EXCEPT !.pc = "failed"]

\* Effect.catchAll(() => Effect.succeed([])) (line 106).
SearchCatchAll(q) == [q EXCEPT !.pc = "done", !.result = <<>>, !.degraded = TRUE]

\* Line 587: generate-code starts the package search.
SearchStart ==
  /\ gen # null /\ gen.pc = "generate"
  /\ search = null
  /\ search' = [pc |-> "attempt", attempts |-> 0, retries |-> 0,
                result |-> <<>>, degraded |-> FALSE]
  /\ UNCHANGED << toolVars, logVars, legacyVars, tex, derive, restVars, call >>

\* Lines 84-104: one attempt of the search; a failed attempt is retried
\* while the schedule recurs.
SearchAttempt ==
  /\ search # null /\ search.pc = "attempt"
  /\ LET q == [search EXCEPT !.attempts = @ + 1]
     IN  \/ \E result \in SearchResults :
              search' = [q EXCEPT !.pc = "done", !.result = result]
         \/ \E failure \in SearchFailures :
              search' = IF Recurs(SearchRecurs, q.retries)
                          THEN [q EXCEPT !.retries = @ + 1]
                          ELSE SearchCatchAll(q)
  /\ UNCHANGED << toolVars, logVars, legacyVars, tex, derive, restVars, call >>

\* Lines 588-620: the package list goes into the prompt and
\* generateWithRetry is run.
CallStart ==
  /\ search # null /\ search.pc = "done"
  /\ call = null
  /\ call' = [pc |-> "attempt", packages |-> slice0(search.result, 20),
              attempts |-> 0, retries |-> 0, log |-> <<>>,
              error |-> "", result |-> null]
  /\ UNCHANGED << toolVars, logVars, legacyVars, tex, derive, restVars, search >>

\* The schedule's decision on a failed attempt (lines 66-76): retry while
\* the schedule recurs and the predicate holds of the error.
CallFailed(q, kind, message) ==
  IF Recurs(GenerateRecurs, q.retries) /\ ShouldRetry(message)
    THEN [q EXCEPT !.retries = @ + 1,
                   !.log = Append(@, [kind |-> kind, retried |-> TRUE,
                                      left |-> GenerateRecurs - q.retries])]
    ELSE [q EXCEPT !.pc = "failed", !.error = message,
                   !.log = Append(@, [kind |-> kind, retried |-> FALSE,
                                      left |-> GenerateRecurs - q.retries])]

\* Lines 55-65: one attempt of generateFn: it resolves, it rejects and the
\* error is mapped, or the timeout fires.
CallAttempt ==
  /\ call # null /\ call.pc = "attempt"
  /\ LET q == [call EXCEPT !.attempts = @ + 1]
     IN  \/ \E object \in LegacyObjects :
              call' = [q EXCEPT !.pc = "done", !.result = object]
         \/ \E error \in BackendFailures :
              call' = CallFailed(q, error.kind, GenerateCatch(error))
         \/ \E message \in TimeoutMessages :
              call' = CallFailed(q, "timeout", message)
  /\ UNCHANGED << toolVars, logVars, legacyVars, tex, derive, restVars, search >>

\* Lines 682-706 and 726-729: the result is validated, or the rejection of
\* Effect.runPromise reaches the catch block.
GenSettle ==
  /\ gen # null /\ gen.pc = "generate"
  /\ call # null /\ call.pc \in { "done", "failed" }
  /\ LET q == [gen EXCEPT !.genCalls = call.attempts]
     IN  gen' = IF call.pc = "done" THEN Validated(q, call.result)
                ELSE GenerationThrew(q)
  /\ UNCHANGED << toolVars, logVars, generated, r2, exe, clr, known, tex,
                  derive, restVars, search, call >>

\* The response is returned and the locals of the handler go.
GenReturn ==
  /\ GenRespond
  /\ search' = null
  /\ call' = null
  /\ UNCHANGED << workerVars, logVars, tex, derive, restVars >>

RetryPrompts == { <<"a">>, <<"b">> }

InitRetry == Init /\ env.OPENAI_API_KEY /\ env.LOADER

NextRetry ==
  \/ GenStart(RetryPrompts) /\ UNCHANGED << workerVars, logVars, auxVars >>
  \/ GenRead /\ UNCHANGED << workerVars, logVars, auxVars >>
  \/ SearchStart
  \/ SearchAttempt
  \/ CallStart
  \/ CallAttempt
  \/ GenSettle
  \/ GenWrite /\ UNCHANGED << workerVars, logVars, auxVars >>
  \/ GenReturn

SpecRetry == InitRetry /\ [][NextRetry]_vars

\* ------------------------------------------------------------------ claims on the resilience wrappers

\* C18: one generateWithRetry call attempts the backend at most
\* 1 + GenerateRecurs times; a call that failed stays failed, and its
\* request is answered with the generation error.
C18_AttemptsBounded ==
  call # null =>
    /\ call.attempts <= 1 + GenerateRecurs
    /\ call.pc = "attempt" => call.attempts <= GenerateRecurs
    /\ call.attempts = call.retries + (IF call.pc = "attempt" THEN 0 ELSE 1)
    /\ (call.pc = "failed" /\ gen.pc = "done") =>
         /\ gen.resp = [status |-> 500, error |-> "OpenAI error"]
         /\ gen.genCalls = call.attempts
         /\ gen.object = null

C18_FailureIsTerminal ==
  (call # null /\ call.pc = "failed") =>
    /\ call' = call \/ call' = null
    /\ generated' = generated
    /\ gen' # gen => gen' = null \/ gen' = GenerationThrew([gen EXCEPT !.genCalls = call.attempts])

C18_BoundedRetries == [](C18_AttemptsBounded) /\ [][C18_FailureIsTerminal]_vars

\* The fourth attempt failed and the request was answered 500.
C18_Witness ==
  /\ call # null
  /\ call.attempts = 1 + GenerateRecurs
  /\ call.pc = "failed"
  /\ gen # null /\ gen.pc = "done"
  /\ gen.resp.status = 500

\* C19: while the schedule still recurs, a failed generation attempt is
\* retried exactly when the failure is a rate limit, a timeout or a network
\* failure.
TransientKinds == { "rate_limit", "timeout", "network" }

C19_SelectiveRetry ==
  call # null =>
    \A i \in DOMAIN call.log :
      call.log[i].left > 0 =>
        (call.log[i].retried <=> call.log[i].kind \in TransientKinds)

\* C20: searchNpmPackages makes at most 1 + SearchRecurs attempts and never
\* fails; when its last attempt fails it yields the empty list, and the
\* request goes on to generate with no packages in its prompt.
C20_SearchDegrades ==
  /\ search # null =>
       /\ search.attempts <= 1 + SearchRecurs
       /\ search.pc \in { "attempt", "done" }
       /\ search.pc = "attempt" => search.attempts <= SearchRecurs
       /\ search.degraded =>
            /\ search.pc = "done"
            /\ search.attempts = 1 + SearchRecurs
            /\ search.result = <<>>
       /\ (gen # null /\ gen.pc # "generate") =>
            /\ search.pc = "done"
            /\ call # null /\ call.attempts >= 1
  /\ call # null =>
       /\ search # null /\ search.pc = "done"
       /\ call.packages = search.result

\* The three attempts of the search failed and the request was answered
\* with a generated source.
C20_Witness ==
  /\ search # null /\ search.degraded
  /\ search.attempts = 1 + SearchRecurs
  /\ call # null /\ call.packages = <<>> /\ call.pc = "done"
  /\ gen # null /\ gen.pc = "done"
  /\ gen.resp.status = 200

\* ------------------------------------------------------------------ earlier worker: POST /api/generate-and-execute

\* Lines 735-749: reject a blank prompt, else POST the prompt to
\* /api/generate-code of the same worker.
GaeStart(prompts, inputs) ==
  /\ gae = null /\ gen = null /\ exe = null
  /\ \E prompt \in prompts, input \in inputs :
       LET q == [pc |-> "generating", prompt |-> prompt, input |-> input,
                 exampleInput |-> "", resp |-> null]
       IN  IF IsBlank(prompt)
             THEN /\ gae' = Reply(q, [status |-> 400, error |-> "Missing prompt"])
                  /\ UNCHANGED << gen, known >>
             ELSE /\ gae' = q
                  /\ GenArrives(prompt)
  /\ UNCHANGED << toolVars, logVars, generated, r2, exe, clr, tex, derive,
                  search, call, serviceVars, sto >>

\* `input || generated.example`
InputOrExample(input, example) == IF input # "" THEN input ELSE example

\* Lines 751-766: the answer of generate-code; a failure is answered with
\* 500, else the generated source, the input and the prompt are POSTed to
\* /api/execute-tool.
GaeGenerated ==
  /\ gae # null /\ gae.pc = "generating"
  /\ gen # null /\ gen.pc = "done"
  /\ gen' = null
  /\ IF gen.resp.status # 200
       THEN /\ gae' = Reply(gae, [status |-> 500, error |-> "Generation failed"])
            /\ UNCHANGED << exe, known >>
       ELSE /\ gae' = [gae EXCEPT !.pc = "executing",
                                  !.exampleInput = gen.resp.body.example]
            /\ ExeArrives(gae.prompt, gen.resp.body.typescript,
                          InputOrExample(gae.input, gen.resp.body.example))
  /\ UNCHANGED << toolVars, logVars, generated, r2, clr, tex, derive,
                  search, call, serviceVars, sto >>

\* Lines 768-781: the answer of execute-tool; execute-tool sets no x-cache
\* header, so `cached` is false.
GaeExecuted ==
  /\ gae # null /\ gae.pc = "executing"
  /\ exe # null /\ exe.pc = "done"
  /\ exe' = null
  /\ gae' = IF exe.resp.status # 200
              THEN Reply(gae, [status |-> 500, error |-> "Execution failed"])
              ELSE Reply(gae, [status |-> 200, toolDescription |-> gae.prompt,
                               result |-> exe.resp.output,
                               contentType |-> exe.resp.contentType,
                               exampleInput |-> gae.exampleInput,
                               cached |-> FALSE])
  /\ UNCHANGED << toolVars, logVars, generated, r2, gen, clr, known, tex,
                  derive, search, call, serviceVars, sto >>

GaeRespond ==
  /\ gae # null /\ gae.pc = "done"
  /\ gae' = null
  /\ UNCHANGED << toolVars, logVars, legacyVars, tex, derive, search, call,
                  serviceVars, sto >>

InvokePrompts == { <<"a">>, <<" ">> }
InvokeInputs == { "x", "" }

\* The earlier worker serving store-prompt and generate-and-execute, the
\* latter calling generate-code and execute-tool.
NextInvoke ==
  \/ gae = null /\ StoreKnown({ <<"a">> }, WriteOutcomes)
       /\ UNCHANGED << workerVars, auxVars >>
  \/ GaeStart(InvokePrompts, InvokeInputs)
  \/ GenRead /\ UNCHANGED << workerVars, logVars, auxVars >>
  \/ GenGenerate(LegacyObjects) /\ UNCHANGED << workerVars, logVars, auxVars >>
  \/ GenWrite /\ UNCHANGED << workerVars, logVars, auxVars >>
  \/ GaeGenerated
  \/ ExeRead /\ UNCHANGED << workerVars, logVars, auxVars >>
  \/ ExeCompile /\ UNCHANGED << workerVars, logVars, auxVars >>
  \/ ExeSet /\ UNCHANGED << workerVars, logVars, auxVars >>
  \/ ExeExecute /\ UNCHANGED << workerVars, logVars, auxVars >>
  \/ GaeExecuted
  \/ GaeRespond

SpecInvoke == Init /\ [][NextInvoke]_vars

\* ------------------------------------------------------------------ claims on history logging

\* C21: every tool invocation with a non-blank prompt has put its raw
\* prompt in the history log, in the current worker (the history's head
\* hashes to the key of the request that was just accepted) and in
\* generate-and-execute of the earlier worker.
C21_InvokeLogged ==
  [][\A r \in Requests :
       (req[r].pc = "idle" /\ req'[r].pc = "cache") =>
         /\ Len(promptHistory') >= 1
         /\ hashPrompt(promptHistory'[1]) = req'[r].hash]_vars

C21_EveryInvocationLogged ==
  (gae # null /\ ~IsBlank(gae.prompt)) =>
    \E key \in DOMAIN promptLog : promptLog[key] = gae.prompt

\* ------------------------------------------------------------------ claims on concurrent requests

\* The tools the pipeline can build for a key: one generated object, compiled.
WholeTools(hash) ==
  { BuiltTool(hash, compileTool(object.typescript), object) : object \in GenObjects }

\* C22: there is no single-flight: two concurrent requests for one key may
\* both miss, generate and compile. The bucket holds one object per key,
\* always a tool built whole from one generated object; a successful write
\* replaces the object by the writer's tool and touches no other key.
C22_StoredToolsAreWhole ==
  \A hash \in DOMAIN toolCache : toolCache[hash] \in WholeTools(hash)

C22_WriteReplaces ==
  \A r \in Requests :
    (req[r].pc = "persist" /\ req'[r].pc = "execute") =>
      /\ req[r].hash \in DOMAIN toolCache'
      /\ toolCache'[req[r].hash] = req[r].tool
      /\ \A other \in (DOMAIN toolCache \cup DOMAIN toolCache') \ {req[r].hash} :
           /\ other \in DOMAIN toolCache /\ other \in DOMAIN toolCache'
           /\ toolCache'[other] = toolCache[other]

C22_LastWriterWins == [](C22_StoredToolsAreWhole) /\ [][C22_WriteReplaces]_vars

\* Two unforced requests for the key of "a" both missed, generated,
\* compiled, stored and succeeded with different tools; the bucket holds
\* the tool of r2 and nothing of r1's.
C22_Witness ==
  /\ \A r \in Requests :
       /\ req[r].hash = hashPrompt(<<"a">>)
       /\ ~req[r].forceRegenerate /\ ~req[r].readFailed
       /\ req[r].genCalls = 1 /\ req[r].compileCalls = 1
       /\ req[r].pc = "done" /\ req[r].resp.status = 200
  /\ req["r1"].tool.outputType # req["r2"].tool.outputType
  /\ toolCache[hashPrompt(<<"a">>)] = req["r2"].tool

\* ------------------------------------------------------------------ compile service: compileCode step by step

\* Sources posted to /compile, by the specifiers of their `from '...'`
\* clauses: none; one package; the same package in two declarations; a URL,
\* a relative and a parent path; an absolute path; a package whose name
\* starts with "http".
SrcTwice ==
  [SrcUuid EXCEPT !.imports = << <<"u", "u", "i", "d">>, <<"u", "u", "i", "d">> >>,
                  !.body = "twice"]
SrcLocal ==
  [SrcEcho EXCEPT !.imports = << <<"h", "t", "t", "p", "s", ":", "/", "/", "x">>,
                                 <<".", "/", "u">>, <<".", ".", "/", "u">> >>,
                  !.body = "local"]
SrcAbsolute == [SrcEcho EXCEPT !.imports = << <<"/", "u">> >>, !.body = "abs"]
SrcHttpName ==
  [SrcEcho EXCEPT !.imports = << <<"h", "t", "t", "p", "-", "x">> >>,
                  !.body = "httpname"]

ServiceCodes == { SrcEcho, SrcUuid, SrcTwice, SrcLocal, SrcAbsolute, SrcHttpName }

\* The compileCode calls that may run at once.
Jobs == { "j1", "j2" }

\* Lines 82-90: the specifiers of the import declarations that pass the
\* filter, one entry per declaration.
ExtractPackages(code) == SelectSeq(code.imports, IsPackageSpecifier)

\* `if (packages.length === 0)` never taken.
ShortCircuitsNever(packages) == FALSE

\* `if (packages.length === 0)` (line 94).
ShortCircuits(packages) == Len(packages) = 0

\* The package.json of lines 109-113: its dependencies are the keys of
\* Object.fromEntries(packages.map(pkg => [pkg, "latest"])).
Manifest(packages) ==
  [name |-> "dynamic-worker",
   dependencies |-> { packages[i] : i \in DOMAIN packages }]

\* fs.mkdir(dir, { recursive: true }): an existing directory is left as is.
Mkdir(files, dir) ==
  IF dir \in DOMAIN files THEN files
  ELSE Put(files, dir, [manifest |-> null, entry |-> null])

\* A cleanup that runs only after a successful build.
RemoveWorkspaceOnSuccess(files, dir, failed) ==
  IF failed THEN files ELSE Delete(files, dir)

\* The finally block: fs.rm(dir, { recursive: true, force: true }), on
\* both paths.
RemoveWorkspace(files, dir, failed) == Delete(files, dir)

Building == { "manifest", "entry", "install", "bundle", "cleanup" }

\* Lines 79-105: extract the packages; return the code as it is when there
\* are none, else name the workspace after the clock and create it. mkdir
\* is outside the try block: when it throws, compileCode throws.
BuildStart(j) ==
  /\ j \notin DOMAIN builds
  /\ \E code \in ServiceCodes, mkdirOk \in BOOLEAN :
       LET packages == ExtractPackages(code)
           q == [pc |-> "returned", code |-> code, packages |-> packages,
                 dir |-> now, provisioned |-> FALSE, failed |-> FALSE,
                 commands |-> 0, result |-> null]
       IN  IF ShortCircuits(packages)
             THEN /\ mkdirOk
                  /\ builds' = Put(builds, j,
                       [q EXCEPT !.result = [mainCode |-> code,
                                             additionalModules |-> <<>>,
                                             packages |-> <<>>]])
                  /\ UNCHANGED workspaces
             ELSE IF mkdirOk
               THEN /\ builds' = Put(builds, j,
                         [q EXCEPT !.pc = "manifest", !.provisioned = TRUE])
                    /\ workspaces' = Mkdir(workspaces, now)
               ELSE /\ builds' = Put(builds, j, [q EXCEPT !.failed = TRUE])
                    /\ UNCHANGED workspaces
  /\ UNCHANGED << toolVars, logVars, legacyVars, tex, derive, search, call, gae, sto >>

\* A step of the try block failed: the finally block is next.
BuildFails(j) == [builds EXCEPT ![j].pc = "cleanup", ![j].failed = TRUE]

\* Lines 108-115: write package.json; the write throws when it fails or
\* the directory is gone.
BuildManifest(j) ==
  /\ j \in DOMAIN builds /\ builds[j].pc = "manifest"
  /\ \E writeOk \in BOOLEAN :
       IF writeOk /\ builds[j].dir \in DOMAIN workspaces
         THEN /\ workspaces' = [workspaces EXCEPT ![builds[j].dir].manifest =
                                  Manifest(builds[j].packages)]
              /\ builds' = [builds EXCEPT ![j].pc = "entry"]
         ELSE /\ builds' = BuildFails(j)
              /\ UNCHANGED workspaces
  /\ UNCHANGED << toolVars, logVars, legacyVars, tex, derive, search, call, gae, sto >>

\* Lines 117-119: write worker.js.
BuildEntry(j) ==
  /\ j \in DOMAIN builds /\ builds[j].pc = "entry"
  /\ \E writeOk \in BOOLEAN :
       IF writeOk /\ builds[j].dir \in DOMAIN workspaces
         THEN /\ workspaces' = [workspaces EXCEPT ![builds[j].dir].entry =
                                  builds[j].code]
              /\ builds' = [builds EXCEPT ![j].pc = "install"]
         ELSE /\ builds' = BuildFails(j)
              /\ UNCHANGED workspaces
  /\ UNCHANGED << toolVars, logVars, legacyVars, tex, derive, search, call, gae, sto >>

\* Lines 121-125: `bun install` in the workspace; a non-zero exit rejects.
\* When the directory is gone the spawn fails: the promise rejects or,
\* with no listener for the error event, never settles.
BuildInstall(j) ==
  /\ j \in DOMAIN builds /\ builds[j].pc = "install"
  /\ LET q == [builds EXCEPT ![j].commands = @ + 1]
     IN  IF builds[j].dir \in DOMAIN workspaces
              /\ workspaces[builds[j].dir].manifest # null
           THEN \/ builds' = [q EXCEPT ![j].pc = "bundle"]
                \/ builds' = [q EXCEPT ![j].pc = "cleanup", ![j].failed = TRUE]
           ELSE \/ builds' = [q EXCEPT ![j].pc = "cleanup", ![j].failed = TRUE]
                \/ builds' = [q EXCEPT ![j].pc = "stuck"]
  /\ UNCHANGED << toolVars, logVars, legacyVars, tex, derive, search, call, gae, sto,
                  workspaces >>

\* Lines 127-136: `bun build worker.js`; its stdout is the main module.
BuildBundle(j) ==
  /\ j \in DOMAIN builds /\ builds[j].pc = "bundle"
  /\ LET q == [builds EXCEPT ![j].commands = @ + 1]
     IN  IF builds[j].dir \in DOMAIN workspaces
              /\ workspaces[builds[j].dir].entry # null
           THEN \/ builds' = [q EXCEPT ![j].pc = "cleanup",
                        ![j].result =
                          [mainCode |-> Bundle(workspaces[builds[j].dir].entry),
                           additionalModules |-> <<>>,
                           packages |-> builds[j].packages]]
                \/ builds' = [q EXCEPT ![j].pc = "cleanup", ![j].failed = TRUE]
           ELSE \/ builds' = [q EXCEPT ![j].pc = "cleanup", ![j].failed = TRUE]
                \/ builds' = [q EXCEPT ![j].pc = "stuck"]
  /\ UNCHANGED << toolVars, logVars, legacyVars, tex, derive, search, call, gae, sto,
                  workspaces >>

\* Lines 144-148: the finally block, then compileCode returns or rethrows.
BuildCleanup(j) ==
  /\ j \in DOMAIN builds /\ builds[j].pc = "cleanup"
  /\ workspaces' = RemoveWorkspace(workspaces, builds[j].dir, builds[j].failed)
  /\ builds' = [builds EXCEPT ![j].pc = "returned"]
  /\ UNCHANGED << toolVars, logVars, legacyVars, tex, derive, search, call, gae, sto >>

\* Lines 63-74: the HTTP response is sent.
BuildReturn(j) ==
  /\ j \in DOMAIN builds /\ builds[j].pc = "returned"
  /\ builds' = Delete(builds, j)
  /\ UNCHANGED << toolVars, logVars, legacyVars, tex, derive, search, call, gae, sto,
                  workspaces >>

NextService ==
  \/ \E j \in Jobs : BuildStart(j)
  \/ \E j \in Jobs : BuildManifest(j)
  \/ \E j \in Jobs : BuildEntry(j)
  \/ \E j \in Jobs : BuildInstall(j)
  \/ \E j \in Jobs : BuildBundle(j)
  \/ \E j \in Jobs : BuildCleanup(j)
  \/ \E j \in Jobs : BuildReturn(j)
  \/ Tick /\ UNCHANGED << toolVars, legacyVars, auxVars >>

\* The worker's bindings play no part in the compile service.
InitService == Init /\ env.OPENAI_API_KEY /\ env.LOADER

SpecService == InitService /\ [][NextService]_vars

\* ------------------------------------------------------------------ claims on the compile service

\* The call is between the creation of its workspace and its return.
InProgress(j) == j \in DOMAIN builds /\ builds[j].pc \in Building

\* C23: when a compileCode call that created a workspace returns, whether
\* with a result or with the error of the manifest write, the entry write,
\* the install or the bundling, the workspace does not exist; and every
\* workspace on disk is that of a call still in progress.
C23_NoOrphanWorkspace ==
  \A dir \in DOMAIN workspaces : \E j \in Jobs : InProgress(j) /\ builds[j].dir = dir

C23_RemovedAtReturn ==
  \A j \in Jobs :
    (j \in DOMAIN builds /\ j \in DOMAIN builds'
       /\ builds[j].pc # "returned" /\ builds'[j].pc = "returned"
       /\ builds'[j].provisioned) =>
      /\ builds[j].pc = "cleanup"
      /\ builds[j].dir \notin DOMAIN workspaces'

C24_WorkspacesDistinct ==
  \A j, k \in Jobs :
    (j # k /\ InProgress(j) /\ InProgress(k)) => builds[j].dir # builds[k].dir

\* C25: a compileCode call whose extracted package list is empty returns
\* at once with the source itself as main module, no additional modules
\* and no packages; it creates no workspace and runs no command.
C25_ShortCircuitState ==
  \A j \in DOMAIN builds :
    builds[j].packages = <<>> =>
      /\ builds[j].pc = "returned"
      /\ ~builds[j].provisioned /\ ~builds[j].failed
      /\ builds[j].commands = 0
      /\ builds[j].result = [mainCode |-> builds[j].code,
                             additionalModules |-> <<>>, packages |-> <<>>]
      /\ builds[j].result = compileCode(builds[j].code)

C25_ShortCircuitStep ==
  \A j \in Jobs :
    (j \notin DOMAIN builds /\ j \in DOMAIN builds' /\ builds'[j].packages = <<>>) =>
      workspaces' = workspaces

C25_ShortCircuit == [](C25_ShortCircuitState) /\ [][C25_ShortCircuitStep]_vars

\* A source whose imports are a URL and two relative paths was returned as
\* it is while no workspace existed.
C25_Witness ==
  \E j \in DOMAIN builds :
    /\ builds[j].code = SrcLocal
    /\ builds[j].pc = "returned"
    /\ builds[j].result.mainCode = SrcLocal
    /\ workspaces = NoStore

\* What a specifier is, by its form.
IsRelativePath(specifier) ==
  startsWith(specifier, <<".", "/">>) \/ startsWith(specifier, <<".", ".", "/">>)
IsAbsolutePath(specifier) == startsWith(specifier, <<"/">>)
IsFullUrl(specifier) == includes(specifier, <<":", "/", "/">>)
IsBareName(specifier) ==
  ~IsRelativePath(specifier) /\ ~IsAbsolutePath(specifier) /\ ~IsFullUrl(specifier)

\* C26: a specifier of the source is in the package list exactly when it
\* is a bare package name: relative paths, absolute paths and URLs are
\* left out and no bare name is.
C26_DependencyFilter ==
  \A j \in DOMAIN builds :
    \A i \in DOMAIN builds[j].code.imports :
      LET specifier == builds[j].code.imports[i]
      IN  (\E n \in DOMAIN builds[j].packages : builds[j].packages[n] = specifier)
            <=> IsBareName(specifier)

\* C27: the package list of a compileCode call holds each name once.
C27_PackagesFormSet ==
  \A j \in DOMAIN builds :
    \A a, b \in DOMAIN builds[j].packages :
      a # b => builds[j].packages[a] # builds[j].packages[b]

\* ------------------------------------------------------------------ worker: compileTool on a response

\* What the fetch of /compile may resolve to: `ok` and `status` of the
\* response, the `text` of its body, and `parsed`, what JSON.parse makes of
\* the text (null when it throws). The first three are what the compile
\* service sends for the code; the last two come from whatever else
\* answers on the port or stands in between.
CompilerResponses(code) ==
  { [ok |-> TRUE, status |-> "200", text |-> "{\"mainCode\":...}",
     parsed |-> compileCode(code)],
    [ok |-> FALSE, status |-> "500",
     text |-> "{\"error\":\"bun failed with code 1: \"}",
     parsed |-> [error |-> "bun failed with code 1: "]],
    [ok |-> FALSE, status |-> "400", text |-> "{\"error\":\"No code provided\"}",
     parsed |-> [error |-> "No code provided"]],
    [ok |-> TRUE, status |-> "200", text |-> "<html>", parsed |-> null],
    [ok |-> FALSE, status |-> "502", text |-> "Bad Gateway", parsed |-> null] }

\* String.prototype.substring(0, n)
substring0(s, n) == SubSeq(s, 1, Min(n, Len(s)))

\* Lines 256-265: the non-2xx branch. The Error thrown inside the try block
\* is caught by the catch block next to it, which throws its own.
CompilationFailed(response) ==
  LET thrownInTry ==
        IF response.parsed = null THEN "SyntaxError"
        ELSE IF response.parsed.error # "" THEN response.parsed.error
        ELSE "Compilation failed: " \o response.status
  IN  "Compilation failed: " \o response.status \o " - " \o response.text

\* Lines 256-279: compileTool from the response on: the result, or the
\* message of the Error it throws.
compileToolOn(response) ==
  IF ~response.ok
    THEN [threw |-> TRUE, message |-> CompilationFailed(response)]
  ELSE IF response.parsed = null
    THEN [threw |-> TRUE,
          message |-> "Invalid JSON response from compiler: "
                        \o substring0(response.text, 100)]
  ELSE [threw |-> FALSE,
        value |-> [bundledCode |-> response.parsed.mainCode,
                   packages |-> response.parsed.packages]]

\* Lines 450-461, following the response of the compile service.
CompileOn(r) ==
  /\ req[r].pc = "compile"
  /\ LET q == [req[r] EXCEPT !.compileCalls = @ + 1,
                             !.steps = Append(@, "compile")]
     IN  \/ \E response \in CompilerResponses(q.result.typescript) :
              LET out == compileToolOn(response)
                  q1 == [q EXCEPT !.response = response]
              IN  req' = [req EXCEPT ![r] =
                    IF out.threw
                      THEN Finish([q1 EXCEPT !.compileFailed = TRUE],
                                  ToolFailed(q1, out.message))
                      ELSE [q1 EXCEPT !.pc = "persist",
                              !.tool = BuiltTool(q.hash, out.value, q.result)]]
         \/ req' = [req EXCEPT ![r] =
                      Finish([q EXCEPT !.compileFailed = TRUE],
                             ToolFailed(q, "fetch failed"))]
  /\ UNCHANGED << promptHistory, toolCache, loader, env, completed >>

\* The current worker with one request at a time, its compile step
\* following the response of the compile service.
NextCompile ==
  \/ \E r \in GateRequests : Start(r) /\ UNCHANGED << logVars, legacyVars, auxVars >>
  \/ \E r \in GateRequests : CheckCache(r) /\ UNCHANGED << logVars, legacyVars, auxVars >>
  \/ \E r \in GateRequests : Generate(r) /\ UNCHANGED << logVars, legacyVars, auxVars >>
  \/ \E r \in GateRequests : CompileOn(r) /\ UNCHANGED << logVars, legacyVars, auxVars >>
  \/ \E r \in GateRequests : Persist(r) /\ UNCHANGED << logVars, legacyVars, auxVars >>
  \/ \E r \in GateRequests : Execute(r) /\ UNCHANGED << logVars, legacyVars, auxVars >>
  \/ \E r \in GateRequests : Respond(r) /\ UNCHANGED << logVars, legacyVars, auxVars >>
  \/ Evict /\ UNCHANGED << logVars, legacyVars, auxVars >>
  \/ ClearHistory /\ UNCHANGED << logVars, legacyVars, auxVars >>

SpecCompile == Init /\ [][NextCompile]_vars

\* C28: a response of the compile service whose body is not JSON yields the
\* "invalid compiler response" error, a response that reports an error
\* yields an error that carries the reported text and is not the "invalid
\* compiler response" error, and neither yields a compile result.
InvalidResponseError(message) ==
  startsWith(message, "Invalid JSON response from compiler")

C28_ErrorKindsDistinct ==
  \A r \in Requests :
    req[r].response # null =>
      LET response == req[r].response
          failed == req[r].pc = "done" /\ req[r].resp.status = 500
                      /\ req[r].tool = null
      IN  /\ response.parsed = null =>
               failed /\ InvalidResponseError(req[r].resp.error[2])
          /\ (response.parsed # null /\ "error" \in DOMAIN response.parsed) =>
               /\ failed
               /\ includes(req[r].resp.error[2], response.parsed.error)
               /\ ~InvalidResponseError(req[r].resp.error[2])

\* ------------------------------------------------------------------ claims: pipeline order

MissPipeline == << "generate", "compile", "persist", "execute" >>
HitPipeline == << "execute" >>

IsPrefix(s, t) == Len(s) <= Len(t) /\ s = SubSeq(t, 1, Len(s))

\* C29: a request that ends in the success response has executed exactly
\* once, as its last step; after a cache miss its steps were generate,
\* compile, persist, execute, in that order and once each, and after a cache
\* hit its only step was execute. No request in flight has left that order.
C29_PipelineOrder ==
  \A r \in Requests :
    /\ Succeeded(r) =>
         req[r].steps = IF req[r].hit THEN HitPipeline ELSE MissPipeline
    /\ IF req[r].hit THEN IsPrefix(req[r].steps, HitPipeline)
                     ELSE IsPrefix(req[r].steps, MissPipeline)

\* C29: the success response is sent by the step that executes.
C29_ExecuteIsLast ==
  [][\A r \in Requests :
       (~Succeeded(r) /\ Succeeded(r)') =>
          /\ req[r].pc = "execute"
          /\ req'[r].steps = Append(req[r].steps, "execute")]_vars

C29_PipelineOrdering == [](C29_PipelineOrder) /\ C29_ExecuteIsLast

\* One request has succeeded after a miss and another after a hit.
C29_Witness ==
  /\ Succeeded("r1") /\ req["r1"].hit /\ req["r1"].steps = HitPipeline
  /\ Succeeded("r2") /\ ~req["r2"].hit /\ req["r2"].steps = MissPipeline

\* ------------------------------------------------------------------ worker: POST /api/tool under fair scheduling

\* The step a request in flight is waiting for. Each is one awaited call
\* (cache.get, generateObject, compileTool, cache.set, executeTool) and what
\* follows it up to the next await or the return; the handler has no loop.
PipelineStep(r) ==
  /\ \/ CheckCache(r)
     \/ Generate(r)
     \/ CompileOn(r)
     \/ Persist(r)
     \/ Execute(r)
  /\ UNCHANGED << logVars, legacyVars, auxVars >>

\* Every awaited call settles: it resolves or rejects, and the runtime then
\* resumes the handler. Nothing obliges a client to send a request, the
\* substrate to evict an isolate, or anyone to clear the history.
SpecLive ==
  /\ Init
  /\ [][NextCompile]_vars
  /\ \A r \in GateRequests : WF_vars(PipelineStep(r))

\* ------------------------------------------------------------------ claims: termination

InFlight(r) == req[r].pc \in { "cache", "generate", "compile", "persist", "execute" }
Errored(r) == Answered(r) /\ req[r].resp.status # 200

\* C30, liveness: when every awaited call settles, a request in flight is
\* eventually answered.
C30_EventuallyAnswered ==
  \A r \in GateRequests : InFlight(r) ~> Answered(r)

\* C30, outcome: an answered request carries one response, either the
\* success response or an error response.
C30_OneOutcome ==
  \A r \in GateRequests :
    /\ Answered(r) => req[r].resp # null /\ req[r].resp.status \in { 200, 400, 500 }
    /\ ~Answered(r) => req[r].resp = null
    /\ ~(Succeeded(r) /\ Errored(r))

\* C30, absorption: a request answered with an error makes no further step:
\* its record stays as it is until the slot is given to the next request,
\* and neither the cache nor the loader changes by its doing.
C30_ErroredIsAbsorbing ==
  [][\A r \in GateRequests :
       Errored(r) =>
         /\ req'[r] = req[r] \/ req'[r] = IdleRequest
         /\ toolCache' = toolCache
         /\ loader' = loader \/ req'[r] = req[r]]_vars

C30_RequestsTerminate ==
  /\ C30_EventuallyAnswered
  /\ [](C30_OneOutcome)
  /\ C30_ErroredIsAbsorbing

\* A request has ended in an error after it generated and compiled.
C30_Witness ==
  /\ Errored("r1")
  /\ req["r1"].steps = << "generate", "compile", "persist" >>

\* ------------------------------------------------------------------ claims: the loaded isolates

\* C31, reuse: an isolate loaded under an id is never initialised a second
\* time: until the substrate evicts it, it stays the module it was loaded
\* from, and a request that executes under its id is answered by it and
\* loads nothing.
C31_LoadedUnitKept ==
  [][/\ \A id \in DOMAIN loader :
          id \in DOMAIN loader' => loader'[id] = loader[id]
     /\ \A r \in Requests :
          (req[r].pc = "execute" /\ Succeeded(r)' /\ req[r].hash \in DOMAIN loader) =>
             /\ loader' = loader
             /\ req'[r].reused
             /\ req'[r].resp.output.by = loader[req[r].hash]]_vars

\* C31, one unit per key: an answered request that found no isolate under
\* its id left exactly the one it initialised from its tool.
C31_OneUnitPerKey ==
  \A r \in Requests :
    (Succeeded(r) /\ ~req[r].reused) =>
       req[r].resp.output.by = req[r].tool.bundledCode

C31_UnitReuse == [](C31_OneUnitPerKey) /\ C31_LoadedUnitKept

\* Two requests for one key have been answered, the first by the isolate it
\* loaded and the second by that same isolate.
C31_Witness ==
  /\ Succeeded("r1") /\ ~req["r1"].reused
  /\ Succeeded("r2") /\ req["r2"].reused
  /\ req["r1"].hash = req["r2"].hash
  /\ req["r2"].hash \in DOMAIN loader
  /\ req["r2"].resp.output.by = loader[req["r2"].hash]

\* ------------------------------------------------------------------ claims: history deduplication

\* C32, no duplicates: no prompt string occurs twice in the PromptHistory.
C32_NoDuplicates ==
  \A i, j \in 1..Len(promptHistory) :
    promptHistory[i] = promptHistory[j] => i = j

\* C32, re-adding: an add of a prompt that is in the list puts it first,
\* keeps the length and keeps the other entries in their order.
C32_ReAddMovesToHead ==
  [][(promptHistory' # promptHistory /\ promptHistory' # <<>>
        /\ Occurs(promptHistory, Head(promptHistory'))) =>
          /\ Len(promptHistory') = Len(promptHistory)
          /\ Tail(promptHistory') = filterNot(promptHistory, Head(promptHistory'))]_vars

C32_HistoryDeduplication == [](C32_NoDuplicates) /\ C32_ReAddMovesToHead

\* A request has just added a prompt that was in the history behind
\* another one: it is first now, and the other one is still there.
C32_Witness ==
  /\ req["r1"].pc = "cache"
  /\ req["r1"].readded
  /\ Len(promptHistory) > 1
  /\ hashPrompt(promptHistory[1]) = req["r1"].hash

\* ------------------------------------------------------------------ PromptLog: POST /write

\* PromptLog.fetch, lines 34-38: the body of the request is written as it
\* is.
PromptLogFetchWrite ==
  /\ \E body \in LogPrompts : promptLog' = PromptLogWrite(promptLog, now, body)
  /\ UNCHANGED now

\* The two history logs with every operation that appends to them:
\* promptHistory.add, store-prompt, and the write route of the PromptLog
\* object.
NextLog ==
  \/ HistoryAdd /\ UNCHANGED << logVars, legacyVars, auxVars >>
  \/ ClearHistory /\ UNCHANGED << logVars, legacyVars, auxVars >>
  \/ StorePrompt /\ UNCHANGED << toolVars, legacyVars, auxVars >>
  \/ PromptLogFetchWrite /\ UNCHANGED << toolVars, legacyVars, auxVars >>
  \/ PromptLogClear /\ UNCHANGED << toolVars, legacyVars, auxVars >>
  \/ Tick /\ UNCHANGED << toolVars, legacyVars, auxVars >>

SpecLog == Init /\ [][NextLog]_vars

\* C33: an append of an empty or whitespace-only prompt leaves the log as
\* it is, whichever operation makes it; so a log that began empty never
\* holds a blank entry.
C33_BlankAppendsAreNoOps ==
  /\ \A i \in 1..Len(promptHistory) : ~IsBlank(promptHistory[i])
  /\ \A key \in DOMAIN promptLog : ~IsBlank(promptLog[key])

\* The same for the two guarded operations alone (promptHistory.add and
\* store-prompt), where it holds.
C33_GuardedAppends == C33_BlankAppendsAreNoOps

\* ------------------------------------------------------------------ earlier worker: the answer of store-prompt

\* store-prompt with the fetch of /write awaited bare: a rejection leaves
\* the handler as an exception, which the framework answers with 500.
StorePromptResponseUncaught(prompt, outcome) ==
  IF ~IsBlank(prompt) /\ outcome # "ok"
    THEN [status |-> 500, body |-> "Internal Server Error"]
    ELSE [status |-> 200, body |-> "ok"]

\* Lines 401-406: `.catch(() => {})` drops a rejection of the fetch, and the
\* handler returns new Response("ok").
StorePromptResponse(prompt, outcome) == [status |-> 200, body |-> "ok"]

\* POST /api/store-prompt (part_005, lines 397-407) with its response kept:
\* `failed` records that the write was attempted and threw.
StoreArrives ==
  /\ sto = null
  /\ \E prompt \in LogPrompts, outcome \in WriteOutcomes :
       /\ StorePromptWith(prompt, outcome)
       /\ sto' = [prompt |-> prompt,
                  failed |-> ~IsBlank(prompt) /\ outcome # "ok",
                  resp |-> StorePromptResponse(prompt, outcome)]
  /\ UNCHANGED << toolVars, legacyVars, tex, derive, search, call, gae, serviceVars >>

\* The response has been sent.
StoreRespond ==
  /\ sto # null
  /\ sto' = null
  /\ UNCHANGED << toolVars, logVars, legacyVars, tex, derive, search, call, gae,
                  serviceVars >>

NextStore ==
  \/ StoreArrives
  \/ StoreRespond
  \/ PromptLogClear /\ UNCHANGED << toolVars, legacyVars, auxVars >>
  \/ Tick /\ UNCHANGED << toolVars, legacyVars, auxVars >>

SpecStore == Init /\ [][NextStore]_vars

\* C34, the answer: a store-prompt whose write to the log threw is answered
\* 200 "ok" all the same.
C34_FailedWriteAnswersOk ==
  (sto # null /\ sto.failed) => sto.resp = [status |-> 200, body |-> "ok"]

\* C34, the rest: a store-prompt changes nothing but the log, and when the
\* put itself threw it leaves the log as it was.
C34_NothingElseTouched ==
  [][(sto = null /\ sto' # null) =>
       /\ UNCHANGED << toolVars, legacyVars >>
       /\ (sto'.failed /\ promptLog' # promptLog) =>
             \E key \in DOMAIN promptLog' : promptLog'[key] = sto'.prompt]_vars

C34_AppendIsBestEffort == [](C34_FailedWriteAnswersOk) /\ C34_NothingElseTouched

\* A store-prompt has been answered whose write threw before anything was put.
C34_Witness ==
  /\ sto # null
  /\ sto.failed
  /\ sto.resp.status = 200
  /\ \A key \in DOMAIN promptLog : promptLog[key] # sto.prompt

\* ------------------------------------------------------------------ claims: execution errors

\* C35 in the current worker: a request whose execution threw is answered
\* with the message of the throw and with the hash the isolate is named
\* after.
C35_ToolFailureNamesKey ==
  \A r \in Requests :
    (Answered(r) /\ req[r].resp.status = 500 /\ req[r].steps # <<>>
       /\ req[r].steps[Len(req[r].steps)] = "execute") =>
          /\ req[r].resp.error = << "Tool failed", "execution" >>
          /\ req[r].resp.details.hash = req[r].hash

\* C35: an execute-tool request whose isolate could not be obtained, loaded
\* or invoked is answered with an error that holds the message of the
\* failure and the key of the isolate.
C35_ExecutionErrorsTraceable ==
  (exe # null /\ exe.pc = "done" /\ exe.resp.status = 500
     /\ exe.resp.error = "execution") =>
        /\ "details" \in DOMAIN exe.resp
        /\ exe.resp.details.hash = exe.hash

\* ------------------------------------------------------------------ claims: the code that ran

\* C36: the output of a request answered 200 was computed by the main
\* module of the tool the request resolved, read from the cache or just
\* built.
C36_RanResolvedArtifact ==
  \A r \in Requests :
    Succeeded(r) => req[r].resp.output.by = req[r].tool.bundledCode

\* C36 in the earlier worker: the output of an execute-tool request was
\* computed by the module the request compiled or read.
C36_LegacyRanResolvedArtifact ==
  (exe # null /\ exe.pc = "done" /\ exe.resp.status = 200) =>
     exe.resp.output.by = exe.module

\* ------------------------------------------------------------------ claims: the two stores of the earlier worker

\* C37: when the generated-code store and the artifact bucket both hold an
\* entry under a key, the artifact is what compiling the stored source
\* gives.
C37_StoresAgree ==
  \A hash \in DOMAIN generated \cap DOMAIN r2 :
    LET tool == CompiledTool(compileCode(generated[hash].typescript))
    IN  /\ r2[hash].code = tool.code
        /\ r2[hash].nodeModules = tool.nodeModules
        /\ r2[hash].metadata = tool.metadata

\* ------------------------------------------------------------------ the three invoking handlers, one request at a time

\* No request is in flight in any handler.
AllIdle ==
  /\ Quiet /\ gae = null
  /\ \A r \in GateRequests : req[r].pc = "idle"

\* /api/tool of the current worker, generate-code and generate-and-execute
\* of the earlier worker, each taking a request when no other is in flight.
NextBlank ==
  \/ \E r \in GateRequests :
       AllIdle /\ Start(r) /\ UNCHANGED << logVars, legacyVars, auxVars >>
  \/ \E r \in GateRequests : CheckCache(r) /\ UNCHANGED << logVars, legacyVars, auxVars >>
  \/ \E r \in GateRequests : Generate(r) /\ UNCHANGED << logVars, legacyVars, auxVars >>
  \/ \E r \in GateRequests : Compile(r) /\ UNCHANGED << logVars, legacyVars, auxVars >>
  \/ \E r \in GateRequests : Persist(r) /\ UNCHANGED << logVars, legacyVars, auxVars >>
  \/ \E r \in GateRequests : Execute(r) /\ UNCHANGED << logVars, legacyVars, auxVars >>
  \/ \E r \in GateRequests : Respond(r) /\ UNCHANGED << logVars, legacyVars, auxVars >>
  \/ AllIdle /\ GenStart(InvokePrompts) /\ UNCHANGED << workerVars, logVars, auxVars >>
  \/ GenRead /\ UNCHANGED << workerVars, logVars, auxVars >>
  \/ GenGenerate(ClearObjects) /\ UNCHANGED << workerVars, logVars, auxVars >>
  \/ GenWrite /\ UNCHANGED << workerVars, logVars, auxVars >>
  \/ gae = null /\ GenRespond /\ UNCHANGED << workerVars, logVars, auxVars >>
  \/ AllIdle /\ GaeStart(InvokePrompts, InvokeInputs)
  \/ GaeGenerated
  \/ ExeRead /\ UNCHANGED << workerVars, logVars, auxVars >>
  \/ ExeCompile /\ UNCHANGED << workerVars, logVars, auxVars >>
  \/ ExeSet /\ UNCHANGED << workerVars, logVars, auxVars >>
  \/ ExeExecute /\ UNCHANGED << workerVars, logVars, auxVars >>
  \/ GaeExecuted
  \/ GaeRespond

SpecBlank == InitClear /\ [][NextBlank]_vars

\* ------------------------------------------------------------------ claims: blank prompts

\* What the three handlers may write to.
Stores == << promptHistory, toolCache, promptLog, generated, r2, loader >>

\* The prompt is missing, empty or white space only.
NothingButSpace(prompt) == \A i \in 1..Len(prompt) : IsSpace(prompt[i])

\* C38, rejection: a request with a blank prompt is answered 400 at once: it
\* is never past its first step, and it has called neither the generator,
\* the compiler nor the executor.
C38_BlankIsRejected ==
  /\ \A r \in GateRequests :
       (req[r].pc # "idle" /\ req[r].hash = NullHash) =>
          /\ Answered(r) /\ req[r].resp.status = 400
          /\ req[r].genCalls = 0 /\ req[r].compileCalls = 0 /\ req[r].steps = <<>>
  /\ \A r \in GateRequests : req[r].hash # Sha256Hex(<<>>)
  /\ (gen # null /\ NothingButSpace(gen.prompt)) =>
        gen.pc = "done" /\ gen.resp.status = 400 /\ gen.genCalls = 0
  /\ (gae # null /\ NothingButSpace(gae.prompt)) =>
        gae.pc = "done" /\ gae.resp.status = 400 /\ gen = null /\ exe = null

\* C38, frame: the step that rejects a blank prompt changes no store.
C38_RejectionWritesNothing ==
  [][(\/ \E r \in GateRequests :
           req[r].pc = "idle" /\ req'[r].pc = "done" /\ req'[r].resp.status = 400
      \/ gen = null /\ gen' # null /\ NothingButSpace(gen'.prompt)
      \/ gae = null /\ gae' # null /\ NothingButSpace(gae'.prompt))
       => UNCHANGED Stores]_vars

C38_BlankRejectedWithoutEffect == [](C38_BlankIsRejected) /\ C38_RejectionWritesNothing

\* A generate-and-execute request with a blank prompt has been rejected
\* while the stores hold what earlier requests left.
C38_Witness ==
  /\ gae # null /\ NothingButSpace(gae.prompt) /\ gae.resp.status = 400
  /\ generated # NoStore /\ r2 # NoStore /\ toolCache # NoStore
  /\ promptHistory # <<>>

\* ------------------------------------------------------------------ claims: writes to the PromptLog

\* C39: a write that went through adds one entry to the log: the list is
\* one longer after it, or stays at the limit.
C39_WriteAddsEntry ==
  (sto = null /\ sto' # null /\ ~NothingButSpace(sto'.prompt) /\ ~sto'.failed) =>
     Len(PromptLogList(promptLog')) =
       Min(Len(PromptLogList(promptLog)) + 1, LogLimit)

C39_NoEntryLost == [][C39_WriteAddsEntry]_vars

=============================================================================
